---- MODULE Spec2Model ----
(***************************************************************************)
(* A model of the TDK-Lambda IOC bus multiplexer (src/serial/mux.rs), its  *)
(* addressed connection and SRQ filter (src/serial/conn.rs).               *)
(*                                                                         *)
(* The executor is single threaded (lib.rs: new_current_thread), so every  *)
(* action is one poll of a task from one suspension point to the next.     *)
(* Time is counted in seconds and kept relative to Instant::now(): an      *)
(* Instant is held as the time left until it is reached (0 once reached),  *)
(* and Tick lets one second pass.                                          *)
(***************************************************************************)
EXTENDS Integers, Sequences, FiniteSets, TLC

\* ------------------------------------------------------------------ bounds
MaxPending == 3   \* requests held at once by the channels, all together
MaxBytes == 4     \* bytes the port delivers in a run of the SRQ filter
MaxVal == 3       \* values an interface variable takes, besides its initial 0
MaxCalls == 4     \* calls of add_client before the multiplexer runs
MaxNum == 12      \* largest number a parser adapter stores
MaxText == 2      \* length of the texts a parser adapter loads, two words apart
MaxTx == 3        \* transmissions of Connection::request, all calls together
MaxSrq == 1       \* SRQ pairs the devices send meanwhile
MaxCmds == 2      \* queued commands waiting in the channel of Device::run's client
MaxSignals == 4   \* signals the multiplexer sends to that client

\* ------------------------------------------------------- program constants
YIELD_TIMEOUT == 1
BACKOFF == 1
LINE_TERM == 13

\* The registered clients (lib.rs registers 0 and 1..7).
Addrs == {1, 2}

\* Option<T>: None is <<>>, Some(x) is <<x>>.
None == <<>>
Some(x) == <<x>>

VARIABLES
    \* Scheduler
    current,    \* Option<(Addr, bool)>: <<>> or <<a, online>>
    online,     \* VecDeque<Addr>
    offline,    \* VecDeque<(Instant, Addr)>
    counter,    \* the fairness counter, kept modulo 2 (only its parity is read)
    \* AddrConnection
    active,     \* Option<Addr>
    \* the run loop
    pc,         \* where Multiplexer::run is suspended
    req,        \* the request the in-flight handler serves
    slp,        \* the (ts, a) a pending Scheduler::current holds in sleep_until
    ydl,        \* the sleep(YIELD_TIMEOUT) of a pending get_queued: time left
    line,       \* the commands written to the bus and not yet answered or given up
    \* channels
    imm,        \* the shared immediate channel: addresses of the pending requests
    que,        \* per client, the queued channel: <<"Cmd", off>> or <<"Yield", FALSE>>
    \* observation
    sigOn,      \* per client: the last of On and Off sent to it is On
    tried,      \* per client: a queued command of it was attempted since that On
    last,       \* what the handler that just returned did (read at the loop boundary)
    \* the SRQ filter (FilterReader) and the interrupt task
    stream,     \* bytes the port has still to deliver
    inb,        \* bytes FilterReader has read from the port so far
    reads,      \* the reads of the port that delivered them
    prev,       \* FilterReader::prev, the pending slot
    chan,       \* the Addr channel from FilterReader to the interrupt task
    emitted,    \* every address FilterReader has sent on chan, in order
    outb,       \* bytes FilterReader has passed on to the buffered reader
    intrs,      \* the clients the interrupt task has sent Signal::Intr to, in order
    fwdAlive,   \* the interrupt task has not panicked
    rdAlive,    \* FilterReader has not panicked
    \* the device task (task.rs), the interface variable, the connection
    task,       \* run's gate, its signal receiver and the binding tasks
    iface,      \* one IfaceVariable and its peer
    conn,       \* AddrConnection and Connection, one call at a time
    reg,        \* Multiplexer::clients while clients are added, and its calls
    par,        \* one parser adapter of a Param, and its last store and load
    rd,         \* one Connection, the port, and the call of request under way
    dev         \* Device::run of one client, its scan task and its signals

muxVars == <<current, online, offline, counter, active, pc, req, slp, ydl,
             line, imm, que, sigOn, tried, last>>
filterVars == <<stream, inb, reads, prev, chan, emitted, outb, intrs,
                fwdAlive, rdAlive>>
restVars == <<task, iface, conn, reg, par, rd, dev>>
vars == <<current, online, offline, counter, active, pc, req, slp, ydl,
          line, imm, que, sigOn, tried, last,
          stream, inb, reads, prev, chan, emitted, outb, intrs,
          fwdAlive, rdAlive, task, iface, conn, reg, par, rd, dev>>

\* ------------------------------------------------------------------ helpers
RECURSIVE SortedAddrs(_)
SortedAddrs(S) ==
    IF S = {} THEN <<>>
    ELSE LET m == CHOOSE x \in S : \A y \in S : x <= y
         IN <<m>> \o SortedAddrs(S \ {m})

NoReq == [pri |-> "none", addr |-> 0, off |-> FALSE, dropped |-> 0]
NoLast == [h |-> "none", addr |-> 0, step |-> "none", err |-> "none",
           sent |-> <<>>, resp |-> FALSE]

\* The addresses of a queue of (Instant, Addr).
AddrsOf(q) == {q[i][2] : i \in 1..Len(q)}

\* The scheduler classifies a as offline: it waits in the offline queue or
\* holds the current slot marked not-online.
IsOffline(a) == a \in AddrsOf(offline) \/ current = <<a, FALSE>>

\* One second less until the Instant d.
Later(d) == IF d > 0 THEN d - 1 ELSE 0

\* Scheduler::new: every address offline, due now, sorted.
SchedulerNew(addrs) ==
    [current |-> None,
     online |-> <<>>,
     offline |-> [i \in 1..Cardinality(addrs) |-> <<0, SortedAddrs(addrs)[i]>>],
     counter |-> 0]

\* FilterReader::new and the interrupt task spawned, nothing read yet.
FilterNew ==
    /\ inb = <<>> /\ reads = 0 /\ prev = None /\ chan = <<>>
    /\ emitted = <<>> /\ outb = <<>> /\ intrs = <<>>
    /\ fwdAlive = TRUE /\ rdAlive = TRUE

\* Multiplexer::run up to its loop.
MuxNew ==
    /\ current = SchedulerNew(Addrs).current
    /\ online = SchedulerNew(Addrs).online
    /\ offline = SchedulerNew(Addrs).offline
    /\ counter = SchedulerNew(Addrs).counter
    /\ active = None
    /\ pc = "top"
    /\ req = NoReq
    /\ slp = None
    /\ ydl = 0
    /\ line = <<>>
    /\ imm = <<>>
    /\ que = [c \in Addrs |-> <<>>]
    /\ sigOn = [c \in Addrs |-> FALSE]
    /\ tried = [c \in Addrs |-> FALSE]
    /\ last = NoLast

\* The bindings of one device: the init-only one (serial number), an output
\* one (voltage set-point) and the task of the two inputs (measured voltage
\* and current); and the interface variables they publish to.
Bindings == {"sn", "pv", "in"}
IVars == {"sn", "pv", "mv", "mc"}

\* task::run up to its loop: the gate false, the binding tasks spawned and
\* not yet polled.
TaskNew ==
    [gate |-> FALSE, chg |-> [b \in Bindings |-> FALSE],
     sig |-> <<>>, got |-> "none",
     ipc |-> "top", opc |-> "top", npc |-> "top",
     sub |-> [v \in {"mv", "mc"} |-> "none"],
     res |-> [v \in IVars |-> "none"],
     pub |-> [v \in IVars |-> "none"],
     seen |-> [b \in Bindings |-> "none"],
     npub |-> [v \in IVars |-> 0],
     outq |-> [v \in IVars |-> 0],
     peer |-> FALSE, owr |-> <<>>, orep |-> "none", gres |-> "none",
     oweRead |-> "no"]
IfaceNew ==
    [variable |-> 0, last_value |-> None, held |-> FALSE, value |-> None,
     accepted |-> None, op |-> "new"]

\* AddrConnection::new, no request made yet
ConnNew ==
    [active |-> None, op |-> "new", addr |-> 0, prev |-> None, sent |-> <<>>,
     ra |-> <<"Skip">>, rc |-> <<"Skip">>, res |-> <<"None">>,
     bus |-> None, pbus |-> None]

\* The addresses lib.rs may register, as far as the registry is concerned.
RegAddrs == 0..2

\* Multiplexer::new: no client; clients[a] is 0 for a vacant entry, else the
\* number of the channel pair made for a; log holds, for each call of
\* add_client, the address and the channel pair of the handle returned (0
\* for None).
RegNew == [clients |-> [a \in RegAddrs |-> 0], log |-> <<>>]

\* A text is a sequence of characters.  A value of a parser's Item is a
\* number (u16, f64), f64's NaN, or a string; every value is a record of the
\* same shape.
Num(n) == [k |-> "num", n |-> n, s |-> <<>>]
NaN == [k |-> "nan", n |-> 0, s |-> <<>>]
Str(t) == [k |-> "str", n |-> 0, s |-> t]

\* Result<Item, String>.
Ok(v) == [ok |-> TRUE, v |-> v, e |-> <<>>]
Err(t) == [ok |-> FALSE, v |-> Num(0), e |-> t]

\* == of Result<Item, String>: f64's NaN is equal to nothing, itself included.
ResultEq(a, b) == a = b /\ ~(a.ok /\ a.v.k = "nan")

\* The parser adapters: NumParser<T> for T of u16 and f64, BoolParser with
\* its two spellings, StringParser.
NumParser(ty) == [kind |-> "num", ty |-> ty, false_ |-> <<>>, true_ |-> <<>>]
BoolParser_new(false_, true_) ==
    [kind |-> "bool", ty |-> "u16", false_ |-> false_, true_ |-> true_]
StringParser == [kind |-> "str", ty |-> "String", false_ |-> <<>>, true_ |-> <<>>]

\* A Param just made with the parser p as the output-enable adapter (out) or
\* as another one: nothing stored or loaded yet.
ParNew(p, out) ==
    [p |-> p, out |-> out, op |-> "new", v |-> Num(0), text |-> <<>>,
     res |-> Err(<<>>)]

\* Connection::new: nothing transmitted, nothing arrived; no call made.
ReadNew ==
    [st |-> "idle", call |-> 0, att |-> 0, tx |-> 0, owed |-> {}, srq |-> 0,
     wire |-> <<>>, port |-> <<>>, pw |-> FALSE, woken |-> FALSE,
     fired |-> FALSE, fprev |-> None, bufr |-> <<>>, line |-> <<>>,
     intr |-> <<>>, since |-> <<>>, res |-> None]

\* Device::run before its first signal: DeviceState::Stopped(params), no
\* scan task; the multiplexer has sent the client nothing and its queued
\* channel is empty.
DevNew ==
    [state |-> "Stopped", sup |-> "recv", scan |-> "none", params |-> "sup",
     sig |-> <<>>, told |-> FALSE, probing |-> FALSE, cmds |-> 0, nsig |-> 0,
     log |-> "none"]

RestNew ==
    /\ task = TaskNew /\ iface = IfaceNew /\ conn = ConnNew /\ reg = RegNew
    /\ par = ParNew(StringParser, FALSE)
    /\ rd = ReadNew
    /\ dev = DevNew

Init == MuxNew /\ FilterNew /\ stream = <<>> /\ RestNew

\* ------------------------------------------------ the multiplexer's state
\* The state Multiplexer::run works on, as one record.
M ==
    [current |-> current, online |-> online, offline |-> offline,
     counter |-> counter, active |-> active, pc |-> pc, req |-> req,
     slp |-> slp, ydl |-> ydl, line |-> line, imm |-> imm,
     que |-> que, sigOn |-> sigOn, tried |-> tried, last |-> last]

SetM(n) ==
    /\ current' = n.current /\ online' = n.online /\ offline' = n.offline
    /\ counter' = n.counter /\ active' = n.active /\ pc' = n.pc
    /\ req' = n.req /\ slp' = n.slp /\ ydl' = n.ydl
    /\ line' = n.line /\ imm' = n.imm /\ que' = n.que
    /\ sigOn' = n.sigOn /\ tried' = n.tried /\ last' = n.last

\* ------------------------------------------------------------- Scheduler
\* SchedGuard::yield_online
yield_online(m) ==
    [m EXCEPT !.current = None, !.online = Append(m.online, m.current[1])]

\* yield_offline putting the entry at the front, as push_front would.
yield_offline_front(m) ==
    [m EXCEPT !.current = None,
              !.offline = <<<<BACKOFF, m.current[1]>>>> \o m.offline]

\* SchedGuard::yield_offline: the retry Instant is BACKOFF from now.
yield_offline(m) ==
    [m EXCEPT !.current = None,
              !.offline = Append(m.offline, <<BACKOFF, m.current[1]>>)]

\* The slot filled and the fairness counter left as it was.
SelectedUncounted(m, a, on) ==
    [m EXCEPT !.current = <<a, on>>, !.slp = None, !.pc = "ready"]

\* The slot filled and the fairness counter incremented.
Selected(m, a, on) ==
    [m EXCEPT !.current = <<a, on>>, !.counter = (m.counter + 1) % 2,
              !.slp = None, !.pc = "ready"]

\* Scheduler::current taking the offline head without regard to its Instant.
SchedulerCurrentEager(m) ==
    IF m.current # None
    THEN [m EXCEPT !.pc = "ready"]
    ELSE IF m.offline # <<>>
    THEN IF m.counter % 2 = 0 \/ m.online = <<>>
         THEN Selected([m EXCEPT !.offline = Tail(m.offline)],
                       Head(m.offline)[2], FALSE)
         ELSE Selected([m EXCEPT !.online = Tail(m.online)],
                       Head(m.online), TRUE)
    ELSE IF m.online # <<>>
    THEN Selected([m EXCEPT !.online = Tail(m.online)], Head(m.online), TRUE)
    ELSE [m EXCEPT !.pc = "panic"]

\* Scheduler::current polled, until it returns (pc "ready"), suspends in
\* sleep_until (pc "sleep", the popped entry in slp) or returns None, on
\* which get_queued's unwrap panics (pc "panic").
SchedulerCurrent(m) ==
    IF m.slp # None
    THEN \* resumed inside sleep_until(ts)
         IF m.slp[1] = 0 THEN Selected(m, m.slp[2], FALSE) ELSE m
    ELSE IF m.current # None
    THEN [m EXCEPT !.pc = "ready"]
    ELSE IF m.offline # <<>>
    THEN LET ts == Head(m.offline)[1]
             a == Head(m.offline)[2]
             popped == [m EXCEPT !.offline = Tail(m.offline)]
         IN IF ts = 0 /\ (m.counter % 2 = 0 \/ m.online = <<>>)
            THEN Selected(popped, a, FALSE)
            ELSE IF m.online # <<>>
            THEN Selected([m EXCEPT !.online = Tail(m.online)],
                          Head(m.online), TRUE)
            ELSE [popped EXCEPT !.pc = "sleep", !.slp = <<ts, a>>]
    ELSE IF m.online # <<>>
    THEN Selected([m EXCEPT !.online = Tail(m.online)], Head(m.online), TRUE)
    ELSE [m EXCEPT !.pc = "panic"]

\* --------------------------------------------------------- AddrConnection
\* Connection::request: the command written to the bus.
Write(m, cmd, a) == [m EXCEPT !.line = Append(m.line, <<cmd, a>>)]

\* Connection::request returned: the oldest outstanding command is answered
\* or given up after its retries.
Answered(m) == [m EXCEPT !.line = Tail(m.line)]

\* AddrConnection::request(addr, cmd) up to its first write: ADR if the
\* cached address differs, else the command itself.
AddrRequest(m, r) ==
    IF m.active # Some(r.addr)
    THEN [Write(m, "ADR", r.addr) EXCEPT !.req = r, !.pc = "adr"]
    ELSE [Write(m, "CMD", r.addr) EXCEPT !.req = r, !.pc = "cmd"]

\* AddrConnection::is_online(addr) up to its write: the cache is cleared,
\* then ADR is sent.
IsOnlineStart(m, a, n) ==
    [Write([m EXCEPT !.active = None], "ADR", a) EXCEPT
        !.req = [pri |-> "probe", addr |-> a, off |-> FALSE,
                 dropped |-> n],
        !.pc = "probe"]

\* ------------------------------------------------------------ the handlers
\* The handler returns to run's loop.
Returned(m, h, step, err, sent, resp) ==
    [m EXCEPT !.pc = "top", !.req = NoReq,
              !.last = [h |-> h, addr |-> m.req.addr,
                        step |-> step, err |-> err, sent |-> sent,
                        resp |-> resp]]

\* request_immediate ending the online turn it interrupts: the current
\* address is yielded online before the request is served.
request_immediate_ending_turn(m) ==
    AddrRequest([(IF m.current # None /\ m.current[2]
                  THEN yield_online(m) ELSE m) EXCEPT !.imm = Tail(m.imm)],
                [pri |-> "imm", addr |-> Head(m.imm), off |-> FALSE,
                 dropped |-> 0])

\* request_immediate, from the channel's head to the first write.
request_immediate(m) ==
    AddrRequest([m EXCEPT !.imm = Tail(m.imm)],
                [pri |-> "imm", addr |-> Head(m.imm), off |-> FALSE,
                 dropped |-> 0])

\* ImmediateDone for a request of either priority: the error only logged.
LoggedOnly(m, step, err) == Returned(m, m.req.pri, step, err, <<>>, err = "ok")

\* request_immediate after conn.request returned: respond on Ok, log on Err.
ImmediateDone(m, step, err) == Returned(m, "imm", step, err, <<>>, err = "ok")

\* QueuedOk ending the turn: respond, then yield the address online.
QueuedOkYields(m) ==
    Returned(yield_online(m), "que", "cmd", "ok", <<>>, TRUE)

\* request_queued after conn.request returned Ok: respond, keep the turn.
QueuedOk(m) == Returned(m, "que", "cmd", "ok", <<>>, TRUE)

\* QueuedErr keeping the client online: no signal, the turn yielded.
QueuedErrKeepsOnline(m, step, err) ==
    Returned(yield_online(m), "que", step, err, <<>>, FALSE)

\* request_queued after conn.request returned Err: Signal::Off, yield_offline,
\* the response slot dropped.
QueuedErr(m, step, err) ==
    Returned(yield_offline([m EXCEPT !.sigOn[m.req.addr] = FALSE,
                                      !.tried[m.req.addr] = FALSE]),
             "que", step, err, <<"Off">>, FALSE)

\* request_queued taking the yield timeout for a failure of the device.
request_queued_strict(m, q) ==
    IF q # None /\ q[1][1] = "Cmd"
    THEN AddrRequest([m EXCEPT !.tried[m.current[1]] = TRUE],
                     [pri |-> "que", addr |-> m.current[1], off |-> q[1][2],
                      dropped |-> 0])
    ELSE IF q = None
    THEN [yield_offline([m EXCEPT !.sigOn[m.current[1]] = FALSE]) EXCEPT
            !.pc = "top",
            !.last = [NoLast EXCEPT !.h = "yield", !.addr = m.current[1],
                         !.err = "timeout", !.sent = <<"Off">>]]
    ELSE [yield_online(m) EXCEPT
            !.pc = "top",
            !.last = [NoLast EXCEPT !.h = "yield", !.addr = m.current[1],
                         !.err = "ok"]]

\* request_queued(req) for the current online client.
request_queued(m, q) ==
    IF q # None /\ q[1][1] = "Cmd"
    THEN AddrRequest([m EXCEPT !.tried[m.current[1]] = TRUE],
                     [pri |-> "que", addr |-> m.current[1], off |-> q[1][2],
                      dropped |-> 0])
    ELSE [yield_online(m) EXCEPT
            !.pc = "top",
            !.last = [NoLast EXCEPT !.h = "yield", !.addr = m.current[1],
                         !.err = IF q = None THEN "timeout" ELSE "ok"]]

\* The number of commands in a queued channel.
RECURSIVE Cmds(_)
Cmds(q) ==
    IF q = <<>> THEN 0
    ELSE (IF Head(q)[1] = "Cmd" THEN 1 ELSE 0) + Cmds(Tail(q))

\* check_online with the client's pending requests left in its channel.
check_online_keep(m) == IsOnlineStart(m, m.current[1], 0)

\* check_online up to the probe's write, after get_queued cleared the
\* client's pending requests.
check_online(m) ==
    LET a == m.current[1]
    IN IsOnlineStart([m EXCEPT !.que[a] = <<>>], a, Cmds(m.que[a]))

\* CheckOnlineDone giving the client its turn whatever the probe said: On
\* only on "OK", but the address yielded online in every case.
CheckOnlineDoneTrusting(m, o) ==
    IF o = "OK"
    THEN Returned(yield_online(
                    [m EXCEPT !.active = Some(m.req.addr),
                              !.sigOn[m.req.addr] = TRUE,
                              !.tried[m.req.addr] = FALSE]),
                  "probe", "adr", "ok", <<"On">>, FALSE)
    ELSE Returned(yield_online(m), "probe", "adr",
                  IF o = "Other" THEN "Device" ELSE o, <<>>, FALSE)

\* check_online after is_online returned.
CheckOnlineDone(m, o) ==
    IF o = "OK"
    THEN Returned(yield_online(
                    [m EXCEPT !.active = Some(m.req.addr),
                              !.sigOn[m.req.addr] = TRUE,
                              !.tried[m.req.addr] = FALSE]),
                  "probe", "adr", "ok", <<"On">>, FALSE)
    ELSE Returned(yield_offline(m), "probe", "adr",
                  IF o = "Other" THEN "Device" ELSE o, <<>>, FALSE)

\* get_queued taking the newest entry of the client's channel.
get_queued_newest(m) ==
    LET c == SchedulerCurrent(m)
    IN IF c.pc # "ready" THEN c
       ELSE LET a == c.current[1]
            IN IF c.current[2]
               THEN IF c.que[a] # <<>>
                    THEN request_queued(
                            [c EXCEPT !.que[a] = SubSeq(@, 1, Len(@) - 1),
                                      !.ydl = 0],
                            Some(c.que[a][Len(c.que[a])]))
                    ELSE IF m.pc = "wait" /\ m.ydl = 0
                    THEN request_queued(c, None)
                    ELSE [c EXCEPT !.pc = "wait",
                                   !.ydl = IF m.pc = "wait" THEN m.ydl
                                           ELSE YIELD_TIMEOUT]
               ELSE check_online(c)

\* get_queued polled, together with the branch of run's select that takes
\* its result.
get_queued(m) ==
    LET c == SchedulerCurrent(m)
    IN IF c.pc # "ready" THEN c
       ELSE LET a == c.current[1]
            IN IF c.current[2]
               THEN IF c.que[a] # <<>>
                    THEN request_queued(
                            [c EXCEPT !.que[a] = Tail(@), !.ydl = 0],
                            Some(Head(c.que[a])))
                    ELSE IF m.pc = "wait" /\ m.ydl = 0
                    THEN request_queued(c, None)
                    ELSE [c EXCEPT !.pc = "wait",
                                   !.ydl = IF m.pc = "wait" THEN m.ydl
                                           ELSE YIELD_TIMEOUT]
               ELSE check_online(c)

\* A select that polls get_queued first and the immediate channel when
\* get_queued is pending.
select_queued_first(m) ==
    IF m.imm # <<>> /\ get_queued([m EXCEPT !.last = NoLast]).pc \in {"sleep", "wait", "panic"}
    THEN request_immediate([m EXCEPT !.slp = None, !.ydl = 0, !.last = NoLast])
    ELSE get_queued([m EXCEPT !.last = NoLast])

\* One poll of run's biased select: the immediate channel first; taking it
\* drops the pending get_queued with what it holds.
select(m) ==
    IF m.imm # <<>>
    THEN request_immediate([m EXCEPT !.slp = None, !.ydl = 0, !.last = NoLast])
    ELSE get_queued([m EXCEPT !.last = NoLast])

\* run polled also while a handler awaits the reply to what it wrote.
SelectPolledInFlight == pc # "panic"

\* run is polled only where it is suspended in the select.
SelectPolled == pc \in {"top", "sleep", "wait"}

\* What conn.request gives back: the reply "OK", another reply, or an error.
AdrOutcomes == {"OK", "Other", "Timeout", "Io", "Decode"}
CmdOutcomes == {"OK", "Timeout", "Io", "Decode"}

ErrOf(o) == IF o = "Other" THEN "Device" ELSE o

\* AdrDone with the failed ADR step only logged, whatever the priority.
AdrDoneLogged(m, o) ==
    IF o = "OK"
    THEN [Write(Answered([m EXCEPT !.active = Some(m.req.addr)]),
                "CMD", m.req.addr) EXCEPT !.pc = "cmd"]
    ELSE LoggedOnly(Answered(m), "adr", ErrOf(o))

\* The ADR step of AddrConnection::request answered with o.
AdrDone(m, o) ==
    IF o = "OK"
    THEN [Write(Answered([m EXCEPT !.active = Some(m.req.addr)]),
                "CMD", m.req.addr) EXCEPT !.pc = "cmd"]
    ELSE IF m.req.pri = "imm"
    THEN ImmediateDone(Answered(m), "adr", ErrOf(o))
    ELSE QueuedErr(Answered(m), "adr", ErrOf(o))

\* CmdDone parking the client of a failed queued command offline without
\* telling it: no Signal::Off.
CmdDoneSilent(m, o) ==
    IF o = "OK"
    THEN IF m.req.pri = "imm"
         THEN ImmediateDone(Answered(m), "cmd", "ok")
         ELSE QueuedOk(Answered(m))
    ELSE IF m.req.pri = "imm"
    THEN ImmediateDone(Answered([m EXCEPT !.active = None]), "cmd", o)
    ELSE Returned(yield_offline(Answered([m EXCEPT !.active = None])),
                  "que", "cmd", o, <<>>, FALSE)

\* The command step of AddrConnection::request answered with o.
CmdDone(m, o) ==
    IF o = "OK"
    THEN IF m.req.pri = "imm"
         THEN ImmediateDone(Answered(m), "cmd", "ok")
         ELSE QueuedOk(Answered(m))
    ELSE IF m.req.pri = "imm"
    THEN ImmediateDone(Answered([m EXCEPT !.active = None]), "cmd", o)
    ELSE QueuedErr(Answered([m EXCEPT !.active = None]), "cmd", o)

\* ----------------------------------------------------------------- actions
MuxPoll ==
    /\ SelectPolled
    /\ select(M) # M
    /\ SetM(select(M))
    /\ UNCHANGED <<filterVars, restVars>>

MuxAdrDone ==
    /\ pc = "adr"
    /\ \E o \in AdrOutcomes : SetM(AdrDone(M, o))
    /\ UNCHANGED <<filterVars, restVars>>

MuxCmdDone ==
    /\ pc = "cmd"
    /\ \E o \in CmdOutcomes : SetM(CmdDone(M, o))
    /\ UNCHANGED <<filterVars, restVars>>

MuxProbeDone ==
    /\ pc = "probe"
    /\ \E o \in AdrOutcomes : SetM(CheckOnlineDone(Answered(M), o))
    /\ UNCHANGED <<filterVars, restVars>>

\* The clients and the clock run while run is suspended.
Suspended == pc \notin {"top", "panic"}

\* The requests the channels hold.
RECURSIVE SumLen(_)
SumLen(S) ==
    IF S = {} THEN 0
    ELSE LET c == CHOOSE x \in S : TRUE IN Len(que[c]) + SumLen(S \ {c})
Pending == Len(imm) + SumLen(Addrs)

\* Commander::execute(cmd, Priority::Queued)
ExecuteQueued(c) ==
    /\ Suspended
    /\ Pending < MaxPending
    /\ que' = [que EXCEPT ![c] = Append(@, <<"Cmd", IsOffline(c)>>)]
    /\ UNCHANGED <<current, online, offline, counter, active, pc, req, slp,
                   ydl, line, imm, sigOn, tried, last, filterVars, restVars>>

\* Commander::yield_
Yield(c) ==
    /\ Suspended
    /\ Pending < MaxPending
    /\ que' = [que EXCEPT ![c] = Append(@, <<"Yield", FALSE>>)]
    /\ UNCHANGED <<current, online, offline, counter, active, pc, req, slp,
                   ydl, line, imm, sigOn, tried, last, filterVars, restVars>>

\* Commander::execute(cmd, Priority::Immediate)
ExecuteImmediate(c) ==
    /\ Suspended
    /\ Pending < MaxPending
    /\ imm' = Append(imm, c)
    /\ UNCHANGED <<current, online, offline, counter, active, pc, req, slp,
                   ydl, line, que, sigOn, tried, last, filterVars, restVars>>

\* A second passes.
Tick ==
    /\ Suspended
    /\ offline' = [i \in 1..Len(offline) |-> <<Later(offline[i][1]), offline[i][2]>>]
    /\ slp' = IF slp = None THEN None ELSE <<Later(slp[1]), slp[2]>>
    /\ ydl' = Later(ydl)
    /\ UNCHANGED <<current, online, counter, active, pc, req, line, imm, que,
                   sigOn, tried, last, filterVars, restVars>>

Next ==
    \/ MuxPoll
    \/ MuxAdrDone
    \/ MuxCmdDone
    \/ MuxProbeDone
    \/ \E c \in Addrs : ExecuteQueued(c)
    \/ \E c \in Addrs : Yield(c)
    \/ \E c \in Addrs : ExecuteImmediate(c)
    \/ Tick

Spec == Init /\ [][Next]_vars

\* --------------------------------------- the SRQ filter and interrupt task
\* The bytes the port delivers: '\r', 'O', and the SRQ bytes 0x80|1, 0x80|2
\* (registered clients) and 0x80|7 (no client).
Bytes == {13, 79, 129, 130, 135}

\* byte_is_intr
byte_is_intr(b) == IF b >= 128 THEN Some(b - 128) ELSE None

\* The loop's turn keeping the later byte of a pair that differs as the
\* pending one.
FilterByteKeepsLater(f, b) ==
    LET a == byte_is_intr(b)
        p == f.prev
    IN IF p # None /\ a # None
       THEN IF a = p
            THEN IF f.rx
                 THEN [f EXCEPT !.prev = None, !.sent = Append(@, a[1])]
                 ELSE [f EXCEPT !.prev = None, !.ok = FALSE]
            ELSE [f EXCEPT !.prev = a]
       ELSE IF a # None
       THEN [f EXCEPT !.prev = a]
       ELSE [f EXCEPT !.prev = None, !.pass = Append(@, b)]

\* One turn of the loop of FilterReader::poll_read, on the byte b.  f holds
\* prev, the addresses sent on chan, the bytes kept in the buffer, and ok,
\* lost when chan.send(a).unwrap() finds the receiver gone (rx false).
FilterByte(f, b) ==
    LET a == byte_is_intr(b)
        p == f.prev
    IN IF p # None /\ a # None
       THEN IF a = p
            THEN IF f.rx
                 THEN [f EXCEPT !.prev = None, !.sent = Append(@, a[1])]
                 ELSE [f EXCEPT !.prev = None, !.ok = FALSE]
            ELSE [f EXCEPT !.prev = None]
       ELSE IF a # None
       THEN [f EXCEPT !.prev = a]
       ELSE [f EXCEPT !.prev = None, !.pass = Append(@, b)]

\* FilterReader::poll_read on the bytes s the inner reader delivered.
RECURSIVE poll_read(_, _)
poll_read(f, s) ==
    IF s = <<>> \/ ~f.ok THEN f
    ELSE poll_read(FilterByte(f, Head(s)), Tail(s))

\* The loop body indexing the clients by the address: it panics when there
\* is no client.
forward_indexed(addr) ==
    [sig |-> IF addr \in Addrs THEN <<addr>> ELSE <<>>, alive |-> addr \in Addrs]

\* The interrupt task's loop body on the address it received: the client's
\* signal if there is one, and whether the task lives on.
forward(addr) ==
    [sig |-> IF addr \in Addrs THEN <<addr>> ELSE <<>>, alive |-> TRUE]

\* A reader whose pending slot does not outlive the call.
ReaderFresh(p) ==
    [prev |-> None, sent |-> <<>>, pass |-> <<>>, ok |-> TRUE, rx |-> fwdAlive]

\* FilterReader as poll_read finds it: the pending slot p, nothing sent or
\* kept yet.
Reader(p) ==
    [prev |-> p, sent |-> <<>>, pass |-> <<>>, ok |-> TRUE, rx |-> fwdAlive]

\* The buffered reader polls FilterReader; the port delivers n bytes.
PollRead(n) ==
    /\ rdAlive
    /\ n \in 1..Len(stream)
    /\ LET s == SubSeq(stream, 1, n)
           f == poll_read(Reader(prev), s)
       IN /\ stream' = SubSeq(stream, n + 1, Len(stream))
          /\ inb' = inb \o s
          /\ reads' = reads + 1
          /\ prev' = f.prev
          /\ chan' = chan \o f.sent
          /\ emitted' = emitted \o f.sent
          /\ outb' = IF f.ok THEN outb \o f.pass ELSE outb
          /\ rdAlive' = f.ok
    /\ UNCHANGED <<intrs, fwdAlive, muxVars, restVars>>

\* The interrupt task receives an address and signals its client.
Forward ==
    /\ fwdAlive
    /\ chan # <<>>
    /\ chan' = Tail(chan)
    /\ intrs' = intrs \o forward(Head(chan)).sig
    /\ fwdAlive' = forward(Head(chan)).alive
    /\ UNCHANGED <<stream, inb, reads, prev, emitted, outb, rdAlive, muxVars,
                   restVars>>

\* Every byte sequence the port may deliver, up to MaxBytes long.
Streams == UNION {[1..n -> Bytes] : n \in 0..MaxBytes}

InitFilter == MuxNew /\ FilterNew /\ stream \in Streams /\ RestNew

NextFilter ==
    \/ \E n \in 1..MaxBytes : PollRead(n)
    \/ Forward

SpecFilter == InitFilter /\ [][NextFilter]_vars

\* ------------------------------------------------------------------ claims
\* The places of the scheduler that hold the address a.
Places(a) ==
    (IF current # None /\ current[1] = a THEN 1 ELSE 0)
    + Cardinality({i \in 1..Len(online) : online[i] = a})
    + Cardinality({i \in 1..Len(offline) : offline[i][2] = a})

\* C1: at every suspension point and loop boundary of the multiplexer, every
\* registered address is in exactly one of the current slot, the online
\* queue and the offline queue, and no address is in a place twice.
C1_ExactlyOnePlace == \A a \in Addrs : Places(a) = 1

\* C1, at the loop boundary only: the address that a dropped get_queued held
\* in sleep_until is in no place when the loop comes round again.
C1_AtLoopBoundary == pc = "top" => \A a \in Addrs : Places(a) = 1

\* C1, the end of it: every address lost, Scheduler::current returns None and
\* get_queued's unwrap panics.
C1_NoPanic == pc # "panic"

\* C2: at most one command is outstanding on the bus, and it is the one the
\* in-flight handler wrote for its request; the run loop takes nothing new,
\* immediate or queued, before that handler returns.
C2_OneTransaction ==
    /\ Len(line) <= 1
    /\ line # <<>> => pc \in {"adr", "cmd", "probe"} /\ line[1][2] = req.addr
    /\ pc \in {"adr", "cmd", "probe"} => Len(line) = 1

\* C2 witness: an immediate request arrived while a queued transaction is
\* in flight, and waits.
C2_Witness == pc = "cmd" /\ req.pri = "que" /\ imm # <<>>

\* C3 as stated: an immediate request pending at the top of the loop is the
\* next dispatched, and every immediate request for another device that is
\* pending when a queued transaction returns is dispatched in the iteration
\* that follows it.
C3_NextIteration ==
    [][(pc = "top" /\ imm # <<>>) =>
          /\ req'.pri = "imm" /\ req'.addr = Head(imm)
          /\ last.h = "que" => \A i \in 2..Len(imm) : imm[i] = last.addr]_vars

\* C3 amended: whenever the loop is polled with immediate requests pending,
\* what it starts is the oldest of them, before any queued command, yield or
\* probe; the later ones follow one per iteration in their order.
C3_OldestImmediateFirst ==
    [][(req.pri = "none" /\ imm # <<>> /\ (pc = "top" \/ req'.pri # "none")) =>
          /\ req'.pri = "imm" /\ req'.addr = Head(imm)
          /\ imm' = Tail(imm)]_vars

\* C3 witness: an immediate request is being served in the middle of another
\* client's online turn while a later immediate request still waits.
C3_Witness ==
    /\ pc \in {"adr", "cmd"} /\ req.pri = "imm" /\ imm # <<>>
    /\ current # None /\ current[2] /\ current[1] # req.addr

\* C4: a client's queued entries join its channel at the tail and leave it
\* at the head, one at a time and only when no transaction is in flight, so
\* its commands are written, and answered, in the order of submission; the
\* only other way out is the clearing of the whole channel before a probe.
C4_SubmissionOrder ==
    [][\A a \in Addrs : que'[a] # que[a] =>
          \/ \E e \in {<<"Cmd", TRUE>>, <<"Cmd", FALSE>>, <<"Yield", FALSE>>} :
                que'[a] = Append(que[a], e)
          \/ /\ que[a] # <<>> /\ que'[a] = Tail(que[a])
             /\ req.pri = "none" /\ current' = IF Head(que[a])[1] = "Cmd"
                                               THEN <<a, TRUE>> ELSE None
             /\ IF Head(que[a])[1] = "Cmd"
                THEN req'.pri = "que" /\ req'.addr = a
                     /\ req'.off = Head(que[a])[2]
                ELSE last'.h = "yield" /\ last'.err = "ok" /\ last'.addr = a
          \/ /\ que'[a] = <<>> /\ req.pri = "none"
             /\ pc' = "probe" /\ req'.addr = a]_vars

\* C4 witness: a queued command is in flight while a later command of the
\* same client waits behind it.
C4_Witness ==
    /\ pc = "cmd" /\ req.pri = "que"
    /\ que[req.addr] # <<>> /\ que[req.addr][1][1] = "Cmd"

\* C5: while Signal::On is the last signal a client was sent and no queued
\* command of it has been attempted since, no step sends it Signal::Off or
\* moves its address to the offline queue: the yield timeout, a Yield marker
\* and immediate traffic leave it online.
C5_AttemptBeforeOff ==
    [][\A a \in Addrs : (sigOn[a] /\ ~tried[a]) =>
          /\ sigOn'[a]
          /\ a \notin AddrsOf(offline')
          /\ last'.sent = <<"Off">> => last'.addr # a]_vars

\* C5 witness: an online client's turn ended on the yield timeout with no
\* command attempted, and On is still the last signal it got.
C5_Witness ==
    /\ pc = "top" /\ last.h = "yield" /\ last.err = "timeout"
    /\ sigOn[last.addr] /\ ~tried[last.addr]
    /\ last.addr \in {online[i] : i \in 1..Len(online)}

\* C6: when a queued transaction fails, at its ADR step or at its command,
\* with a timeout, an I/O error, a decoding error or a device error, exactly
\* one Signal::Off goes to that client, its address moves from the current
\* slot to the tail of the offline queue with the retry time one backoff
\* from now, and the requester gets no response.
C6_QueuedFailure ==
    [][(req.pri = "que" /\ pc' = "top" /\ last'.err # "ok") =>
          /\ last'.sent = <<"Off">> /\ ~sigOn'[req.addr]
          /\ current = <<req.addr, TRUE>> /\ current' = None
          /\ offline' = Append(offline, <<BACKOFF, req.addr>>)
          /\ online' = online
          /\ ~last'.resp]_vars

\* C6 witness: a queued command has just failed at its command step while
\* another device waits in the offline queue ahead of it.
C6_Witness ==
    /\ pc = "top" /\ last.h = "que" /\ last.step = "cmd"
    /\ last.err = "Timeout" /\ Len(offline) = 2

C8_AnyPriorityOffline ==
    [][(pc \in {"adr", "probe"} /\ pc' = "top" /\ last'.err = "Device") =>
          /\ req.addr \in AddrsOf(offline')
          /\ sigOn[req.addr] => last'.sent = <<"Off">>]_vars

\* C8 amended: a reply other than OK to the ADR step of a queued request
\* sends Signal::Off and puts the address in the offline queue; to a probe,
\* it puts the address back in the offline queue; to an immediate request it
\* is only logged: the scheduler and the signals are untouched and the
\* requester gets no response.
C8_QueuedAdrOffline ==
    [][(pc \in {"adr", "probe"} /\ pc' = "top" /\ last'.err = "Device") =>
          /\ req.pri = "que" =>
                /\ req.addr \in AddrsOf(offline') /\ current' = None
                /\ last'.sent = <<"Off">> /\ ~sigOn'[req.addr]
          /\ req.pri = "probe" =>
                /\ req.addr \in AddrsOf(offline') /\ current' = None
                /\ last'.sent = <<>>
          /\ req.pri = "imm" =>
                /\ <<current', online', offline'>> = <<current, online, offline>>
                /\ sigOn' = sigOn /\ last'.sent = <<>>
          /\ ~last'.resp]_vars

\* C8 witness: the ADR step of a queued command has just been answered with
\* something other than OK.
C8_Witness ==
    /\ pc = "top" /\ last.h = "que" /\ last.step = "adr"
    /\ last.err = "Device"

\* The position where the run of consecutive high-bit bytes holding s[i]
\* starts.
RunStart(s, i) ==
    CHOOSE j \in 1..i :
        /\ \A k \in j..i : s[k] >= 128
        /\ j = 1 \/ s[j - 1] < 128

\* The bytes read so far hold the pair (0x80|a, 0x80|a) at i and i + 1.
PairAt(a, i) ==
    /\ i + 1 <= Len(inb)
    /\ inb[i] = 128 + a /\ inb[i + 1] = 128 + a

\* Client a has its Signal::Intr: the filter sent a, and the interrupt task
\* passed it on once it has emptied the channel.
Signalled(a) ==
    /\ \E k \in 1..Len(emitted) : emitted[k] = a
    /\ chan = <<>> => \E k \in 1..Len(intrs) : intrs[k] = a

\* C9 as stated: for every pair (0x80|a, 0x80|a) of consecutive bytes that
\* has been read, wherever it lies, client a gets at least one Signal::Intr,
\* and no high-bit byte is passed on to the reader of the responses.
C9_EveryPair ==
    /\ \A a \in Addrs : \A i \in 1..Len(inb) : PairAt(a, i) => Signalled(a)
    /\ \A k \in 1..Len(outb) : outb[k] < 128

\* C9 amended: for every such pair that starts at an even offset in its run
\* of consecutive high-bit bytes (its first byte meets an empty pending
\* slot), however the reads cut the stream, client a gets at least one
\* Signal::Intr, and no high-bit byte is passed on to the reader of the
\* responses.  A pair at an odd offset is cut between two pairs the filter
\* compares, and may raise nothing.
C9_AlignedPair ==
    /\ \A a \in Addrs : \A i \in 1..Len(inb) :
          (PairAt(a, i) /\ (i - RunStart(inb, i)) % 2 = 0) => Signalled(a)
    /\ \A k \in 1..Len(outb) : outb[k] < 128

\* C9 witness: a pair inside a response line, each byte delivered by a read
\* of its own, has raised the client's Signal::Intr and left the line clean.
C9_Witness ==
    /\ inb = <<79, 129, 129, 13>> /\ reads = 4
    /\ intrs = <<1>> /\ outb = <<79, 13>>

\* The addresses the interrupt task has received.
Taken == SubSeq(emitted, 1, Len(emitted) - Len(chan))

IsClient(a) == a \in Addrs

\* C10: the addresses the filter emitted reach the interrupt task in order,
\* each one it has received has given exactly one Signal::Intr, to the
\* client registered for it, in that order, and none if there is no such
\* client; neither the task nor the reader has stopped.
C10_ForwardedOnce ==
    /\ Len(chan) <= Len(emitted)
    /\ chan = SubSeq(emitted, Len(emitted) - Len(chan) + 1, Len(emitted))
    /\ intrs = SelectSeq(Taken, IsClient)
    /\ fwdAlive /\ rdAlive

\* C10 witness: the task received an address with no client, raised nothing,
\* and afterwards delivered the Signal::Intr of a registered client.
C10_Witness ==
    /\ chan = <<>> /\ emitted = <<7, 1>> /\ intrs = <<1>>
    /\ fwdAlive /\ rdAlive

\* ------------------------------------------------ the device task (task.rs)
\* What follows models task::run for one device: the supervisor loop, the
\* watch channel of the gate and the binding tasks.  A step of a binding is
\* one poll, from one await to the next.  The device and the interface are
\* the environment: a device request is answered, and an interface request
\* granted, at any later time.
Signals == {"On", "Off", "Intr"}

\* watch::Sender::send_replace: the value replaced and every receiver marked
\* changed, also when the value is the same.
send_replace(t, v) == [t EXCEPT !.gate = v, !.chg = [b \in Bindings |-> TRUE]]

\* The supervisor taking Signal::Intr for Signal::Off.
run_signal_intr_off(t, s) ==
    IF s = "On" THEN send_replace(t, TRUE) ELSE send_replace(t, FALSE)

\* run's match on the signal received.
run_signal(t, s) ==
    IF s = "On" THEN send_replace(t, TRUE)
    ELSE IF s = "Off" THEN send_replace(t, FALSE)
    ELSE t

\* One turn of run's loop on the signal s, noted in got; a rising edge of the
\* gate leaves the output binding a read-back to make.
run(t, s) ==
    LET u == run_signal(t, s)
    IN [u EXCEPT !.got = s,
                 !.oweRead = IF ~t.gate /\ u.gate THEN "yes" ELSE @]

\* on.borrow_and_update() by binding b: the value seen, the mark cleared.
borrow_and_update(t, b) ==
    [t EXCEPT !.chg[b] = FALSE,
              !.seen[b] = IF t.gate THEN "on" ELSE "off"]

\* What a result is published as: "gate" is the Err(NoResponse) a binding
\* makes up when it finds the gate false.
Shown(r) == IF r = "gate" THEN "NoResponse" ELSE r

\* iface.write(result) granted: the result of variable v published.
iface_write(t, v) ==
    [t EXCEPT !.pub[v] = Shown(t.res[v]),
              !.npub[v] = 1,
              !.res[v] = "none",
              !.oweRead = IF v = "pv" /\ t.res[v] # "gate" /\ @ = "reading"
                          THEN "no" ELSE @]

\* What DeviceVariable::read gives: a value, NoResponse, or Parse.
ReadResults == {"val", "NoResponse", "Parse"}

\* What the device answers to DeviceVariable::write: OK, something else, or
\* nothing (the commander's None).
WriteReplies == {"OK", "Other", "None"}

\* init_loop going to wait without a word when it finds the gate false.
init_loop_silent(t) ==
    LET u == [borrow_and_update(t, "sn") EXCEPT !.npub["sn"] = 0]
    IN IF t.gate THEN [u EXCEPT !.ipc = "read", !.outq["sn"] = @ + 1]
       ELSE [u EXCEPT !.ipc = "wait"]

\* init_loop from the top of its loop to its next await.
init_loop(t) ==
    LET u == [borrow_and_update(t, "sn") EXCEPT !.npub["sn"] = 0]
    IN IF t.gate THEN [u EXCEPT !.ipc = "read", !.outq["sn"] = @ + 1]
       ELSE [u EXCEPT !.res["sn"] = "gate", !.ipc = "write"]

\* output_loop entering its inner loop without the read-back.
output_loop_no_read(t) ==
    LET u == [borrow_and_update(t, "pv") EXCEPT !.npub["pv"] = 0]
    IN IF t.gate THEN [u EXCEPT !.opc = "idle"]
       ELSE [u EXCEPT !.res["pv"] = "gate", !.opc = "write"]

\* output_loop from the top of its outer loop to its next await.
output_loop(t) ==
    LET u == [borrow_and_update(t, "pv") EXCEPT !.npub["pv"] = 0]
    IN IF t.gate
       THEN [u EXCEPT !.opc = "read", !.outq["pv"] = @ + 1,
                      !.oweRead = IF @ = "yes" THEN "reading" ELSE @]
       ELSE [u EXCEPT !.res["pv"] = "gate", !.opc = "write"]

\* The guard taken and the device write sent at Queued priority.
output_pickup_queued(t) ==
    [t EXCEPT !.peer = FALSE, !.owr = <<"Queued">>, !.orep = "none",
              !.gres = "none", !.opc = "dwrite"]

\* The read-guard taken from iface.read() and device.write sent.
output_pickup(t) ==
    [t EXCEPT !.peer = FALSE, !.owr = <<"Immediate">>, !.orep = "none",
              !.gres = "none", !.opc = "dwrite"]

\* output_loop's inner select, biased: the gate's change first, then the
\* interface's read-guard.
output_select(t) ==
    IF t.chg["pv"] THEN output_loop(t)
    ELSE IF t.peer THEN output_pickup(t)
    ELSE t

\* device.write answered with r: the guard accepted or rejected.
output_written(t, r) ==
    [t EXCEPT !.orep = r,
              !.gres = IF r = "OK" THEN "accept"
                       ELSE IF r = "None" THEN "NoResponse" ELSE "Parse",
              !.opc = "ack"]

\* The block started: join! polls both input() calls, each submits its
\* queued read.
join_inputs(t) ==
    [t EXCEPT !.sub = [v \in {"mv", "mc"} |-> "read"],
              !.outq["mv"] = @ + 1, !.outq["mc"] = @ + 1,
              !.npub["mv"] = 0, !.npub["mc"] = 0]

\* loop_if starting the block anew beside the one it was running.
loop_if_beside(t) ==
    LET u == [borrow_and_update(t, "in") EXCEPT
                  !.res["mv"] = "none", !.res["mc"] = "none"]
    IN IF t.gate
       THEN [join_inputs(u) EXCEPT !.npc = "run"]
       ELSE [u EXCEPT !.npc = "stopped",
                      !.sub = [v \in {"mv", "mc"} |-> "none"],
                      !.npub["mv"] = 0, !.npub["mc"] = 0]

\* loop_if from the top of its outer loop to its next await; the block it
\* was running, if any, is dropped where it stood, its pending requests
\* with it.
loop_if(t) ==
    LET u == [borrow_and_update(t, "in") EXCEPT
                  !.res["mv"] = "none", !.res["mc"] = "none",
                  !.outq["mv"] = 0, !.outq["mc"] = 0]
    IN IF t.gate
       THEN [join_inputs(u) EXCEPT !.npc = "run"]
       ELSE [u EXCEPT !.npc = "stopped",
                      !.sub = [v \in {"mv", "mc"} |-> "none"],
                      !.npub["mv"] = 0, !.npub["mc"] = 0]

SetT(n) == task' = n /\ UNCHANGED <<muxVars, filterVars, iface, conn, reg, par, rd, dev>>

\* The multiplexer sends the task a signal.
SendSig(s) ==
    /\ task.sig = <<>>
    /\ SetT([task EXCEPT !.sig = <<s>>])

\* run receives the signal.
Supervise ==
    /\ task.sig # <<>>
    /\ SetT([run(task, Head(task.sig)) EXCEPT !.sig = <<>>])

InitPoll ==
    /\ task.ipc = "top" \/ (task.ipc = "wait" /\ task.chg["sn"])
    /\ SetT(init_loop(task))

InitRead(r) ==
    /\ task.ipc = "read"
    /\ SetT([task EXCEPT !.res["sn"] = r, !.outq["sn"] = @ - 1,
                         !.ipc = "write"])

InitWritten ==
    /\ task.ipc = "write"
    /\ SetT([iface_write(task, "sn") EXCEPT !.ipc = "wait"])

OutPoll ==
    \/ /\ task.opc = "top"
       /\ SetT(output_loop(task))
    \/ /\ task.opc = "idle" /\ (task.chg["pv"] \/ task.peer)
       /\ SetT(output_select(task))

OutRead(r) ==
    /\ task.opc = "read"
    /\ SetT([task EXCEPT !.res["pv"] = r, !.outq["pv"] = @ - 1,
                         !.opc = "write"])

OutWritten ==
    /\ task.opc = "write"
    /\ SetT([iface_write(task, "pv") EXCEPT !.opc = "idle"])

OutWriteDone(r) ==
    /\ task.opc = "dwrite"
    /\ SetT(output_written(task, r))

\* guard.accept() or guard.reject() returns.
OutAcked ==
    /\ task.opc = "ack"
    /\ SetT([task EXCEPT !.opc = "idle"])

\* The interface's peer writes the output variable.
PeerWrite ==
    /\ ~task.peer
    /\ SetT([task EXCEPT !.peer = TRUE])

InPoll ==
    /\ task.npc = "top" \/ (task.npc \in {"run", "stopped"} /\ task.chg["in"])
    /\ SetT(loop_if(task))

\* input(v): device.read answered.  The select is biased: once the gate is
\* marked changed the block is not polled again.
InRead(v, r) ==
    /\ task.npc = "run" /\ ~task.chg["in"] /\ task.sub[v] = "read"
    /\ SetT([task EXCEPT !.res[v] = r, !.outq[v] = @ - 1,
                         !.sub[v] = "write"])

InWritten(v) ==
    /\ task.npc = "run" /\ ~task.chg["in"] /\ task.sub[v] = "write"
    /\ SetT([iface_write(task, v) EXCEPT !.sub[v] = "done"])

\* join! complete, yield_() sent, the block started again.
InYield ==
    /\ task.npc = "run" /\ ~task.chg["in"]
    /\ \A v \in {"mv", "mc"} : task.sub[v] = "done"
    /\ SetT(join_inputs(task))

\* The bindings of a task meet only in the gate, of which each has its own
\* receiver, so the supervisor is run with the init-only and the output
\* binding in one specification and with the input task in another.
NextTask ==
    \/ \E s \in Signals : SendSig(s)
    \/ Supervise
    \/ InitPoll
    \/ \E r \in ReadResults : InitRead(r)
    \/ InitWritten
    \/ OutPoll
    \/ \E r \in ReadResults : OutRead(r)
    \/ OutWritten
    \/ \E r \in WriteReplies : OutWriteDone(r)
    \/ OutAcked
    \/ PeerWrite

SpecTask == Init /\ [][NextTask]_vars

\* The executor polls a woken task, the serial side answers or drops every
\* request, and the interface grants every request: each step of the
\* supervisor and of the output binding is taken once it stays enabled.
\* Signals and the peer's writes come or not.
SpecTaskLive ==
    /\ SpecTask
    /\ WF_vars(Supervise)
    /\ WF_vars(OutPoll)
    /\ WF_vars(\E r \in ReadResults : OutRead(r))
    /\ WF_vars(OutWritten)
    /\ WF_vars(\E r \in WriteReplies : OutWriteDone(r))
    /\ WF_vars(OutAcked)

NextInput ==
    \/ \E s \in Signals : SendSig(s)
    \/ Supervise
    \/ InPoll
    \/ \E v \in {"mv", "mc"}, r \in ReadResults : InRead(v, r)
    \/ \E v \in {"mv", "mc"} : InWritten(v)
    \/ InYield

SpecInput == Init /\ [][NextInput]_vars

\* ------------------------------------------------------------------ C11
\* C11: the gate holds what the last On or Off the supervisor received
\* says: receiving On leaves it true, receiving Off leaves it false, also
\* when it held that value already; receiving Intr changes neither the gate
\* nor any receiver's mark; and no other step changes the gate.
C11_GateFollowsSignals ==
    [][IF task.sig # <<>> /\ task'.sig = <<>>
       THEN /\ Head(task.sig) = "On" => task'.gate
            /\ Head(task.sig) = "Off" => ~task'.gate
            /\ Head(task.sig) = "Intr" =>
                   task'.gate = task.gate /\ task'.chg = task.chg
       ELSE task'.gate = task.gate]_vars

\* Intr received while the gate is true, and the gate still true.
C11_Witness == task.got = "Intr" /\ task.gate /\ task.sig = <<>>

\* ------------------------------------------------------------------ C12
\* C12: once the gate has become true, the output binding issues a queued
\* read of its variable and publishes the result to its interface
\* variable, if the gate stays true.
C12_ReadBack ==
    (task.gate /\ task.oweRead # "no") ~> (task.oweRead = "no" \/ ~task.gate)

\* The gate true, the read-back made and a value published.
C12_Witness ==
    /\ task.gate /\ task.oweRead = "no"
    /\ task.seen["pv"] = "on" /\ task.pub["pv"] = "val" /\ task.opc = "idle"

\* ------------------------------------------------------------------ C13
\* C13: for a guard the output binding has taken from its interface
\* variable, one device write has been sent, at Immediate priority; when
\* the device has answered, the guard is accepted if and only if the answer
\* is exactly OK, rejected with NoResponse if there is no answer and with
\* Parse if the answer is anything else.
C13_WriteThrough ==
    /\ task.opc \in {"dwrite", "ack"} => task.owr = <<"Immediate">>
    /\ task.opc = "dwrite" => task.gres = "none"
    /\ task.opc = "ack" =>
           /\ task.gres = "accept" <=> task.orep = "OK"
           /\ task.orep = "None" => task.gres = "NoResponse"
           /\ task.orep = "Other" => task.gres = "Parse"

\* A guard rejected with Parse after an answer other than OK.
C13_Witness ==
    task.opc = "ack" /\ task.orep = "Other" /\ task.gres = "Parse"

C15_InputsPublishWhenOff ==
    task.npc = "stopped" /\ task.seen["in"] = "off" =>
        task.pub["mv"] = "NoResponse" /\ task.pub["mc"] = "NoResponse"

\* ------------------------------------- the interface variable (interface.rs)
\* One IfaceVariable with a ScalarAdapter, whose load and store copy the
\* value.  iface.held says that a ReadGuard is out, iface.value is the
\* guard's snapshot, iface.accepted the value of the most recent accepted
\* write and iface.op the last operation.
Vals == 1..MaxVal

\* IfaceVariable::read leaving the variable as the peer wrote it.
IfaceVariable_read_no_rollback(i) ==
    [i EXCEPT !.value = Some(i.variable), !.held = TRUE]

\* IfaceVariable::read: the snapshot taken, then last_value, if any, stored
\* in the guard.
IfaceVariable_read(i) ==
    [i EXCEPT !.value = Some(i.variable),
              !.variable = IF i.last_value # None THEN i.last_value[1] ELSE @,
              !.held = TRUE]

\* The results given to IfaceVariable::write: Ok(v) as <<v>>, any
\* Err(reason) as <<>>.
Results == {Some(v) : v \in Vals} \cup {None}

\* IfaceVariable::write(result).
IfaceVariable_write(i, result) ==
    IF result = None THEN i
    ELSE [i EXCEPT !.variable = result[1], !.last_value = result]

\* ReadGuard::accept storing the snapshot without recording it.
ReadGuard_accept_store_only(i) ==
    [i EXCEPT !.variable = i.value[1], !.held = FALSE]

\* ReadGuard::accept.
ReadGuard_accept(i) ==
    [i EXCEPT !.variable = i.value[1], !.last_value = i.value, !.held = FALSE]

\* ReadGuard::reject.
ReadGuard_reject(i) == [i EXCEPT !.held = FALSE]

SetI(n) == iface' = n /\ UNCHANGED <<muxVars, filterVars, task, conn, reg, par, rd, dev>>

\* The peer of the interface writes the variable.
PeerPut(v) ==
    /\ ~iface.held
    /\ SetI([iface EXCEPT !.variable = v, !.op = "put"])

IfaceWrite(result) ==
    /\ ~iface.held
    /\ SetI([IfaceVariable_write(iface, result) EXCEPT
                 !.accepted = IF result = None THEN @ ELSE result,
                 !.op = IF result = None THEN "write_err" ELSE "write_ok"])

IfaceRead ==
    /\ ~iface.held
    /\ SetI([IfaceVariable_read(iface) EXCEPT !.op = "read"])

GuardAccept ==
    /\ iface.held
    /\ SetI([ReadGuard_accept(iface) EXCEPT
                 !.accepted = iface.value, !.op = "accept"])

GuardReject ==
    /\ iface.held
    /\ SetI([ReadGuard_reject(iface) EXCEPT !.op = "reject"])

NextIface ==
    \/ \E v \in Vals : PeerPut(v)
    \/ \E r \in Results : IfaceWrite(r)
    \/ IfaceRead
    \/ GuardAccept
    \/ GuardReject

SpecIface == Init /\ [][NextIface]_vars

\* ------------------------------------------------------------------ C16
\* C16: taking a read-guard and rejecting it leave last_value as it was,
\* and after the rejection the variable holds last_value if there is one;
\* after accepting the guard the variable and last_value both hold the
\* guard's snapshot.
C16_GuardOutcome ==
    [][/\ iface'.op \in {"read", "reject"} /\ iface'.held # iface.held =>
              iface'.last_value = iface.last_value
       /\ iface.held /\ ~iface'.held /\ iface'.op = "reject" =>
              (iface.last_value # None =>
                   iface'.variable = iface.last_value[1])
       /\ iface.held /\ ~iface'.held /\ iface'.op = "accept" =>
              /\ iface'.variable = iface.value[1]
              /\ iface'.last_value = iface.value]_vars

\* A guard whose snapshot differs from last_value has been rejected and the
\* variable holds last_value.
C16_Witness ==
    /\ iface.op = "reject" /\ iface.last_value = Some(1)
    /\ iface.value = Some(2) /\ iface.variable = 1

\* ------------------------------------------------------------------ C17
\* C17: last_value is the value of the most recent accepted write, by
\* write(Ok) or by an accepted read-guard, and is None when there has been
\* none; write(Err), read and reject leave it alone.
C17_LastAccepted == iface.last_value = iface.accepted

\* write(Ok(1)), then a guard with snapshot 2 accepted, then write(Err).
C17_Witness ==
    /\ iface.op = "write_err" /\ iface.last_value = Some(2)
    /\ iface.value = Some(2) /\ iface.variable = 2

\* ---------------------------------------- the addressed connection (conn.rs)
\* A call of AddrConnection::request or is_online is one step: the
\* multiplexer makes one call at a time.  conn.prev is the cached address
\* before the call, conn.sent the lines transmitted in it, conn.ra and
\* conn.rc the results of the Connection::request for ADR and for the
\* command (<<"Skip">> when it was not made), conn.res the call's result.
\* conn.bus is the last ADR written to the bus, with its address and whether
\* it was answered OK; conn.pbus is conn.bus as the call found it.

\* CMD_RETRIES bounds the loop at conn.rs:90; its definition is not among
\* the sources, its value is the retries of the specification's timing
\* defaults.
CMD_RETRIES == 2

\* What the port does in one attempt: no terminator within CMD_TIMEOUT, a
\* line, an I/O error, or a line that is not UTF-8.
Outcomes == {"silent", "OK", "E01", "io", "utf8"}

\* The port's behaviour in the attempts of one Connection::request.
Tapes == [1..CMD_RETRIES -> Outcomes]

\* The loop of Connection::request from attempt i on, sent being the lines
\* transmitted so far.
RECURSIVE Attempts(_, _, _, _)
Attempts(cmd, tape, i, sent) ==
    IF i = CMD_RETRIES THEN [sent |-> sent, res |-> <<"Err", "Timeout">>]
    ELSE IF tape[i + 1] = "silent"
         THEN Attempts(cmd, tape, i + 1, Append(sent, cmd))
         ELSE [sent |-> Append(sent, cmd),
               res |-> IF tape[i + 1] = "io" THEN <<"Err", "Io">>
                       ELSE IF tape[i + 1] = "utf8" THEN <<"Err", "Decode">>
                       ELSE <<"Ok", tape[i + 1]>>]

Connection_request(cmd, tape) == Attempts(cmd, tape, 0, <<>>)

\* format!("ADR {}", addr)
Adr(addr) == IF addr = 1 THEN "ADR 1" ELSE "ADR 2"

Skipped == [sent |-> <<>>, res |-> <<"Skip">>]

\* AddrConnection::request keeping the cached address when the command
\* fails.
AddrConnection_request_keep(c, addr, cmd, ta, tc) ==
    LET need == c.active # Some(addr)
        a == IF need THEN Connection_request(Adr(addr), ta) ELSE Skipped
        aok == ~need \/ a.res = <<"Ok", "OK">>
        r == IF aok THEN Connection_request(cmd, tc) ELSE Skipped
    IN [c EXCEPT !.op = "request", !.addr = addr, !.prev = c.active,
                 !.sent = a.sent \o r.sent, !.ra = a.res, !.rc = r.res,
                 !.pbus = c.bus,
                 !.bus = IF need THEN Some(<<addr, a.res = <<"Ok", "OK">>>>) ELSE @,
                 !.active = IF aok THEN Some(addr) ELSE @,
                 !.res = IF aok THEN r.res
                         ELSE IF a.res[1] = "Ok" THEN <<"Err", "Device", a.res[2]>>
                         ELSE a.res]

\* AddrConnection::request(addr, cmd), the port behaving as ta while ADR is
\* requested and as tc while cmd is.
AddrConnection_request(c, addr, cmd, ta, tc) ==
    LET need == c.active # Some(addr)
        a == IF need THEN Connection_request(Adr(addr), ta) ELSE Skipped
        aok == ~need \/ a.res = <<"Ok", "OK">>
        r == IF aok THEN Connection_request(cmd, tc) ELSE Skipped
    IN [c EXCEPT !.op = "request", !.addr = addr, !.prev = c.active,
                 !.sent = a.sent \o r.sent, !.ra = a.res, !.rc = r.res,
                 !.pbus = c.bus,
                 !.bus = IF need THEN Some(<<addr, a.res = <<"Ok", "OK">>>>) ELSE @,
                 !.active = IF ~aok THEN @
                            ELSE IF r.res[1] = "Err" THEN None
                            ELSE Some(addr),
                 !.res = IF aok THEN r.res
                         ELSE IF a.res[1] = "Ok" THEN <<"Err", "Device", a.res[2]>>
                         ELSE a.res]

\* AddrConnection::is_online trusting the cached address.
AddrConnection_is_online_cached(c, addr, ta) ==
    LET need == c.active # Some(addr)
        a == IF need THEN Connection_request(Adr(addr), ta)
             ELSE [sent |-> <<>>, res |-> <<"Ok", "OK">>]
    IN [c EXCEPT !.op = "is_online", !.addr = addr, !.prev = c.active,
                 !.sent = a.sent, !.ra = a.res, !.rc = <<"Skip">>,
                 !.pbus = c.bus,
                 !.bus = IF need THEN Some(<<addr, a.res = <<"Ok", "OK">>>>) ELSE @,
                 !.active = IF a.res = <<"Ok", "OK">> THEN Some(addr) ELSE None,
                 !.res = IF a.res = <<"Ok", "OK">> THEN <<"Ok", "true">>
                         ELSE IF a.res[1] = "Ok" THEN <<"Err", "Device", a.res[2]>>
                         ELSE IF a.res = <<"Err", "Timeout">> THEN <<"Ok", "false">>
                         ELSE a.res]

\* AddrConnection::is_online(addr), the port behaving as ta.
AddrConnection_is_online(c, addr, ta) ==
    LET a == Connection_request(Adr(addr), ta)
    IN [c EXCEPT !.op = "is_online", !.addr = addr, !.prev = c.active,
                 !.sent = a.sent, !.ra = a.res, !.rc = <<"Skip">>,
                 !.pbus = c.bus,
                 !.bus = Some(<<addr, a.res = <<"Ok", "OK">>>>),
                 !.active = IF a.res = <<"Ok", "OK">> THEN Some(addr) ELSE None,
                 !.res = IF a.res = <<"Ok", "OK">> THEN <<"Ok", "true">>
                         ELSE IF a.res[1] = "Ok" THEN <<"Err", "Device", a.res[2]>>
                         ELSE IF a.res = <<"Err", "Timeout">> THEN <<"Ok", "false">>
                         ELSE a.res]

SetC(n) == conn' = n /\ UNCHANGED <<muxVars, filterVars, task, iface, reg, par, rd, dev>>

ConnRequest(addr, ta, tc) ==
    SetC(AddrConnection_request(conn, addr, "MV?", ta, tc))

ConnIsOnline(addr, ta) == SetC(AddrConnection_is_online(conn, addr, ta))

NextConn ==
    \/ \E addr \in Addrs, ta \in Tapes, tc \in Tapes : ConnRequest(addr, ta, tc)
    \/ \E addr \in Addrs, ta \in Tapes : ConnIsOnline(addr, ta)

SpecConn == Init /\ [][NextConn]_vars

\* ------------------------------------------------------------------ C18
\* C18: a call of AddrConnection::request(addr, cmd) transmits ADR addr, and
\* before cmd, if and only if the cached address was not addr; an ADR reply
\* other than OK gives Device(reply) and cmd is not transmitted; if cmd
\* fails the cache is empty afterwards and the error is the call's result;
\* if cmd succeeds the cache holds addr and the reply is the result.
C18_Request ==
    conn.op = "request" =>
        /\ conn.prev # Some(conn.addr) <=> conn.ra # <<"Skip">>
        /\ conn.prev # Some(conn.addr) <=>
               (conn.sent # <<>> /\ conn.sent[1] = Adr(conn.addr))
        /\ \A j \in 1..Len(conn.sent), k \in 1..Len(conn.sent) :
               conn.sent[j] = "MV?" /\ conn.sent[k] # "MV?" => k < j
        /\ conn.ra[1] = "Ok" /\ conn.ra # <<"Ok", "OK">> =>
               /\ conn.res = <<"Err", "Device", conn.ra[2]>>
               /\ \A j \in 1..Len(conn.sent) : conn.sent[j] # "MV?"
        /\ conn.ra[1] = "Err" =>
               /\ conn.res = conn.ra
               /\ \A j \in 1..Len(conn.sent) : conn.sent[j] # "MV?"
        /\ conn.rc[1] = "Err" => conn.active = None /\ conn.res = conn.rc
        /\ conn.rc[1] = "Ok" =>
               conn.active = Some(conn.addr) /\ conn.res = conn.rc

\* Address 2 selected with success over a cached address 1, then the
\* command timed out and the cache was cleared.
C18_Witness ==
    /\ conn.op = "request" /\ conn.prev = Some(1) /\ conn.addr = 2
    /\ conn.ra = <<"Ok", "OK">> /\ conn.rc = <<"Err", "Timeout">>
    /\ conn.active = None

\* ------------------------------------------------------------------ C19
\* C19: a call of AddrConnection::is_online(addr) transmits ADR addr
\* whatever the cache held; the reply OK gives Ok(true) and the cache holds
\* addr; a timeout gives Ok(false); another reply gives Err(Device), another
\* error is the call's result; and unless the reply was OK the cache is
\* empty afterwards.
C19_IsOnline ==
    conn.op = "is_online" =>
        /\ conn.sent # <<>>
        /\ \A j \in 1..Len(conn.sent) : conn.sent[j] = Adr(conn.addr)
        /\ conn.ra = <<"Ok", "OK">> =>
               conn.res = <<"Ok", "true">> /\ conn.active = Some(conn.addr)
        /\ conn.ra = <<"Err", "Timeout">> => conn.res = <<"Ok", "false">>
        /\ conn.ra[1] = "Ok" /\ conn.ra # <<"Ok", "OK">> =>
               conn.res = <<"Err", "Device", conn.ra[2]>>
        /\ conn.ra[1] = "Err" /\ conn.ra # <<"Err", "Timeout">> =>
               conn.res = conn.ra
        /\ conn.ra # <<"Ok", "OK">> => conn.active = None

\* The address probed was the cached one; the probe timed out and the cache
\* is empty.
C19_Witness ==
    /\ conn.op = "is_online" /\ conn.prev = Some(conn.addr)
    /\ conn.res = <<"Ok", "false">> /\ conn.active = None

\* ------------------------------------------------------------------ C20
\* C20: a Connection::request to which the port never answers with a
\* terminator has transmitted its command retries + 1 times when it
\* returns Timeout.
C20_RetriesPlusOne ==
    conn.op = "is_online" /\ conn.ra = <<"Err", "Timeout">> =>
        Len(conn.sent) = CMD_RETRIES + 1

\* ------------------------------------------------------------------ C21
\* C21: with the current slot and the online queue empty and the offline
\* head not yet due, a poll of Scheduler::current fills no slot: it waits
\* in sleep_until, and while the Instant it waits for is not reached it
\* keeps waiting; whenever a slot is filled with an address marked
\* not-online, that address was the offline head, or the entry held in
\* sleep_until, and its Instant had been reached.  The entry waited for
\* is the earliest of the offline entries.
C21_NotBeforeRetryTime ==
    [][/\ (current = None /\ current' # None /\ ~current'[2]) =>
              \/ slp = <<0, current'[1]>>
              \/ slp = None /\ offline # <<>>
                     /\ Head(offline) = <<0, current'[1]>>
       /\ (current = None /\ online = <<>> /\ imm = <<>> /\ pc = "top"
               /\ slp = None /\ offline # <<>> /\ Head(offline)[1] > 0) =>
              (current' = None /\ (pc' = "sleep" => slp' = Head(offline)))
       /\ (pc = "sleep" /\ slp # None /\ slp[1] > 0) =>
              (current' = None /\ req'.pri \in {"none", "imm"})
       /\ slp # None => \A i \in 1..Len(offline) : slp[1] <= offline[i][1]]_vars

\* Scheduler::current waits in sleep_until for the only offline entry left
\* to wait for, and its Instant has been reached.
C21_Witness ==
    /\ pc = "sleep" /\ current = None /\ online = <<>>
    /\ slp # None /\ slp[1] = 0

\* ------------------------------------------------------------------ C22
\* C22: the online turn of a client that submits no queued request ends
\* within the yield timeout, whatever immediate requests arrive: the
\* sleep(YIELD_TIMEOUT) that get_queued armed for the turn is not armed
\* anew, for the same turn, after an immediate request was served.
C22_TurnEndsInTime ==
    [][(pc # "wait" /\ pc' = "wait" /\ ydl' = YIELD_TIMEOUT) =>
           ~(current # None /\ current[2] /\ last.h = "imm")]_vars

\* ------------------------------------------------------------------ C23
\* C23: no offline address is starved: an offline entry that Scheduler::
\* current holds and whose retry time has passed is selected for a probe,
\* and until then stays with the scheduler, whatever else the loop serves
\* first.
C23_DueEntryKept ==
    [][(slp # None /\ slp[1] = 0) =>
           (current' = <<slp[2], FALSE>> \/ slp' = slp)]_vars

\* ------------------------------------------------------------------ C24
\* C24: a device classified offline that answers OK to ADR from some point
\* on is eventually probed and its client sent Signal::On: at every loop
\* boundary each client whose last signal was not On has its address with
\* the scheduler for a probe to come, in the offline queue or in the
\* current slot.
C24_ProbeToCome ==
    pc = "top" =>
        \A a \in Addrs :
            ~sigOn[a] => (a \in AddrsOf(offline) \/ current = <<a, FALSE>>)

\* ------------------------------------------------------------------ C25
\* The queued commands a client has submitted and not yet seen answered or
\* dropped.
Outstanding == task.outq["sn"] + task.outq["pv"] + task.outq["mv"] + task.outq["mc"]

\* C25 as stated: at any time a client has at most one queued command
\* outstanding.
C25_OnePerClient == Outstanding <= 1

\* C25 amended: at any time each binding of a client has at most one queued
\* command outstanding, since it awaits the response before it issues its
\* next; the client has at most one for each of its bindings.
C25_OnePerBinding == \A v \in IVars : task.outq[v] <= 1

\* Both inputs of the client wait for the answer to their queued read.
C25_Witness == task.outq["mv"] = 1 /\ task.outq["mc"] = 1 /\ task.npc = "run"

\* ------------------------------------------------ the registry of clients
\* add_client inserting whatever the entry holds, as HashMap::insert would.
add_client_insert(g, addr) ==
    [g EXCEPT !.clients[addr] = Len(g.log) + 1,
              !.log = Append(@, <<addr, Len(g.log) + 1>>)]

\* Multiplexer::add_client(addr): None for an occupied entry; else a new
\* channel pair, its responder and signal sender in the record, its
\* requester and signal receiver in the handle returned.
add_client(g, addr) ==
    IF g.clients[addr] # 0
    THEN [g EXCEPT !.log = Append(@, <<addr, 0>>)]
    ELSE [g EXCEPT !.clients[addr] = Len(g.log) + 1,
                   !.log = Append(@, <<addr, Len(g.log) + 1>>)]

AddClient(addr) ==
    /\ Len(reg.log) < MaxCalls
    /\ reg' = add_client(reg, addr)
    /\ UNCHANGED <<muxVars, filterVars, task, iface, conn, par, rd, dev>>

NextReg == \E addr \in RegAddrs : AddClient(addr)

SpecReg == Init /\ [][NextReg]_vars

\* ------------------------------------------------------------------ C26
\* The handles returned for the address a.
HandlesOf(a) == {i \in 1..Len(reg.log) : reg.log[i][1] = a /\ reg.log[i][2] # 0}

\* C26: a call of add_client returns a handle if and only if no earlier
\* call had its address; every address called for has one record and one
\* handle, which hold the two ends of the same channels, those made by the
\* first call for it.
C26_OnePerAddress ==
    /\ \A i \in 1..Len(reg.log) :
           reg.log[i][2] # 0 <=>
               \A j \in 1..(i - 1) : reg.log[j][1] # reg.log[i][1]
    /\ \A a \in RegAddrs :
           IF \E i \in 1..Len(reg.log) : reg.log[i][1] = a
           THEN /\ Cardinality(HandlesOf(a)) = 1
                /\ reg.clients[a] \in HandlesOf(a)
                /\ reg.log[reg.clients[a]][2] = reg.clients[a]
           ELSE reg.clients[a] = 0

\* Address 1 registered by the first call, refused by the third; its record
\* is the first call's.
C26_Witness ==
    /\ Len(reg.log) >= 3
    /\ reg.log[1] = <<1, 1>> /\ reg.log[3] = <<1, 0>>
    /\ reg.clients[1] = 1


\* ------------------------------------------------ the parser adapters
\* The digits of the decimal notation, and the other characters a text is
\* made of here.
DigitChars == <<"0", "1", "2", "3", "4", "5", "6", "7", "8", "9">>
Chars == {"0", "1", "2", "+", "-", "O", "N"}

IsDigit(c) == \E i \in 1..10 : DigitChars[i] = c
DigitVal(c) == (CHOOSE i \in 1..10 : DigitChars[i] = c) - 1

\* The texts a device may answer with: the short ones over Chars, and the
\* two longer words.
Texts ==
    UNION {[1..n -> Chars] : n \in 0..MaxText}
        \cup {<<"O", "F", "F">>, <<"N", "a", "N">>}

\* Display of a number that is not negative: its decimal digits.
RECURSIVE fmt_u(_)
fmt_u(n) ==
    IF n < 10 THEN <<DigitChars[n + 1]>>
    ELSE fmt_u(n \div 10) \o <<DigitChars[(n % 10) + 1]>>

\* format!("{}", value) of a u16 or of an f64 with no fraction.
Display(v) ==
    IF v.k = "nan" THEN <<"N", "a", "N">>
    ELSE IF v.n < 0 THEN <<"-">> \o fmt_u(0 - v.n)
    ELSE fmt_u(v.n)

\* The number a sequence of digits denotes.
RECURSIVE digits_value(_)
digits_value(t) ==
    IF t = <<>> THEN 0
    ELSE digits_value(SubSeq(t, 1, Len(t) - 1)) * 10 + DigitVal(t[Len(t)])

AllDigits(t) == t # <<>> /\ \A i \in 1..Len(t) : IsDigit(t[i])

\* text.parse::<T>(): u16 takes a "+" and digits; f64 takes a sign and then
\* digits or NaN.  None for a text that is not a T.
FromStr(ty, text) ==
    LET signed == text # <<>> /\ Head(text) \in {"+", "-"}
        neg == signed /\ Head(text) = "-"
        rest == IF signed THEN Tail(text) ELSE text
    IN IF ty = "u16"
       THEN IF ~neg /\ AllDigits(rest) THEN Some(Num(digits_value(rest)))
            ELSE None
       ELSE IF rest = <<"N", "a", "N">> THEN Some(NaN)
       ELSE IF AllDigits(rest)
       THEN Some(Num(IF neg THEN 0 - digits_value(rest) ELSE digits_value(rest)))
       ELSE None

\* NumParser::load: text.parse::<T>().map_err(|_| text).
NumParser_load(p, text) ==
    LET r == FromStr(p.ty, text)
    IN IF r # None THEN Ok(r[1]) ELSE Err(text)

\* NumParser::store: format!("{}", value).
NumParser_store(p, value) == Display(value)

\* BoolParser::load: the text is compared with false_ first, then with true_.
BoolParser_load(p, text) ==
    IF text = p.false_ THEN Ok(Num(0))
    ELSE IF text = p.true_ THEN Ok(Num(1))
    ELSE Err(text)

\* BoolParser::store with the two spellings taken for each other.
BoolParser_store_swapped(p, value) == IF value.n = 0 THEN p.true_ ELSE p.false_

\* BoolParser::store: false_ for 0, true_ for every other value.
BoolParser_store(p, value) == IF value.n = 0 THEN p.false_ ELSE p.true_

\* StringParser: the text is the value.
StringParser_load(p, text) == Ok(Str(text))
StringParser_store(p, value) == value.s

\* Parser::load and Parser::store of the adapter p.
Parser_load(p, text) ==
    IF p.kind = "num" THEN NumParser_load(p, text)
    ELSE IF p.kind = "bool" THEN BoolParser_load(p, text)
    ELSE StringParser_load(p, text)

Parser_store(p, value) ==
    IF p.kind = "num" THEN NumParser_store(p, value)
    ELSE IF p.kind = "bool" THEN BoolParser_store(p, value)
    ELSE StringParser_store(p, value)

\* Params::new of device.rs: the output-enable adapter of the device at addr,
\* whose prefix is "PS<addr>:".
Params_bool_parser(addr) ==
    IF addr = 0 THEN BoolParser_new(<<"O", "F", "F">>, <<"O", "N">>)
    ELSE BoolParser_new(<<"0">>, <<"1">>)

\* The two device families of device/mod.rs, named by the output-enable
\* adapter of each: Device<BoolParser>, which spells OFF and ON, and
\* Device<NumParser>.
DeviceOld == BoolParser_new(<<"O", "F", "F">>, <<"O", "N">>)
DeviceNew == NumParser("u16")

\* The output-enable adapters, and the adapters of the other parameters.
OutEnaParsers == {Params_bool_parser(a) : a \in RegAddrs} \cup {DeviceOld, DeviceNew}
OtherParsers == {NumParser("f64"), StringParser}

\* The values of the Item type of p, as far as the bounds go.
ValuesOf(p) ==
    IF p.kind = "str" THEN {Str(t) : t \in Texts}
    ELSE IF p.ty = "f64" THEN {Num(n) : n \in (0 - MaxNum)..MaxNum} \cup {NaN}
    ELSE {Num(n) : n \in 0..MaxNum}

\* The values of every adapter.
Values == UNION {ValuesOf(p) : p \in OutEnaParsers \cup OtherParsers}

\* Param::write: the value of the variable is stored into the command.
ParStore(v) ==
    /\ v \in ValuesOf(par.p)
    /\ par' = [par EXCEPT !.op = "store", !.v = v,
                          !.text = Parser_store(par.p, v), !.res = Err(<<>>)]
    /\ UNCHANGED <<muxVars, filterVars, task, iface, conn, reg, rd, dev>>

\* The text just stored is loaded again by the same adapter.
ParLoadBack ==
    /\ par.op = "store"
    /\ par' = [par EXCEPT !.op = "back", !.res = Parser_load(par.p, par.text)]
    /\ UNCHANGED <<muxVars, filterVars, task, iface, conn, reg, rd, dev>>

\* Param::read: the answer of the device is loaded.
ParLoad(t) ==
    /\ par' = [par EXCEPT !.op = "load", !.v = Num(0), !.text = t,
                          !.res = Parser_load(par.p, t)]
    /\ UNCHANGED <<muxVars, filterVars, task, iface, conn, reg, rd, dev>>

InitParser ==
    /\ MuxNew /\ FilterNew /\ stream = <<>>
    /\ task = TaskNew /\ iface = IfaceNew /\ conn = ConnNew /\ reg = RegNew
    /\ rd = ReadNew
    /\ dev = DevNew
    /\ par \in {ParNew(p, TRUE) : p \in OutEnaParsers}
                 \cup {ParNew(p, FALSE) : p \in OtherParsers}

NextParser ==
    \/ \E v \in Values : ParStore(v)
    \/ ParLoadBack
    \/ \E t \in Texts : ParLoad(t)

SpecParser == InitParser /\ [][NextParser]_vars

\* ------------------------------------------------------------------ C27
\* The domain of an adapter: every number but NaN for the numeric one, 0 and
\* 1 for the boolean one, every string for the identity.
InDomain(p, v) ==
    IF p.kind = "bool" THEN v.n \in {0, 1}
    ELSE v.k # "nan"

\* C27 as stated: for every parser adapter and every value v of its value
\* type, loading what store made of v gives Ok(v).
C27_RoundTrip == par.op = "back" => ResultEq(par.res, Ok(par.v))

\* C27 amended: for every parser adapter and every value v in its domain (0
\* and 1 for the boolean adapter, every number but NaN for the numeric one,
\* every string for the identity), loading what store made of v gives Ok(v).
C27_RoundTripInDomain ==
    (par.op = "back" /\ InDomain(par.p, par.v)) => ResultEq(par.res, Ok(par.v))

\* The boolean adapter of the OFF/ON family has stored 1 as ON and loaded it
\* again.
C27_Witness ==
    /\ par.op = "back" /\ par.p.kind = "bool"
    /\ par.v = Num(1) /\ par.text = <<"O", "N">> /\ par.res = Ok(Num(1))


\* ------------------------------------------------------------------ C28
\* The spelling of b (0 or 1) of an output-enable adapter: what BoolParser
\* was made with, and the decimal notation for the numeric adapter.
Spelling(p, b) ==
    IF p.kind = "bool" THEN (IF b = 0 THEN p.false_ ELSE p.true_)
    ELSE Display(Num(b))

\* C28: the output-enable adapter of every device family loads the spelling
\* of false as Ok(0), the spelling of true as Ok(1), and every other text as
\* Err of that text.
C28_EveryFamily ==
    (par.out /\ par.op = "load") =>
        par.res = IF par.text = Spelling(par.p, 0) THEN Ok(Num(0))
                  ELSE IF par.text = Spelling(par.p, 1) THEN Ok(Num(1))
                  ELSE Err(par.text)


\* ------------------------------------------------------------------ C29
\* The offline head is due and it is the turn of the offline queue: the
\* fairness counter is even or no client is online.
OfflineTurn ==
    /\ offline # <<>> /\ Head(offline)[1] = 0
    /\ (counter % 2 = 0 \/ online = <<>>)

\* C29: with the current slot empty Scheduler::current selects the offline
\* head, marked not-online, if it is due and the counter is even or the
\* online queue empty; otherwise the online head, marked online, if there is
\* one, and the offline queue is as it was; otherwise it takes the offline
\* head out, sleeps until its retry time and selects it.  Every selection
\* adds one to the counter, and the counter stays when the slot was filled.
C29_SelectionPolicy ==
    [][/\ current # None => counter' = counter
       /\ (current = None /\ current' # None) => counter' = (counter + 1) % 2
       /\ counter' # counter =>
              /\ current = None
              /\ IF slp # None
                 THEN /\ slp[1] = 0 /\ current' = <<slp[2], FALSE>>
                      /\ offline' = offline /\ online' = online
                 ELSE IF OfflineTurn
                 THEN /\ current' = <<Head(offline)[2], FALSE>>
                      /\ offline' = Tail(offline) /\ online' = online
                 ELSE /\ online # <<>> /\ offline' = offline
                      /\ \/ /\ current' = <<Head(online), TRUE>>
                            /\ online' = Tail(online)
                         \/ \* selected, and its turn given up at once
                            /\ current' = None /\ last'.h = "yield"
                            /\ last'.addr = Head(online)
                            /\ online' = Append(Tail(online), Head(online))
       /\ (pc # "sleep" /\ pc' = "sleep") =>
              /\ current = None /\ ~OfflineTurn /\ online = <<>>
              /\ offline # <<>> /\ slp' = Head(offline)
              /\ offline' = Tail(offline)
              /\ counter' = counter /\ current' = None
       /\ (pc = "top" /\ imm = <<>> /\ current = None /\ pc' # "top") =>
              \/ counter' # counter
              \/ pc' = "sleep"
              \/ offline = <<>> /\ online = <<>>
       /\ (pc = "sleep" /\ imm = <<>> /\ slp # None /\ slp[1] = 0
               /\ pc' # "sleep") =>
              current' = <<slp[2], FALSE>>]_vars

\* An online client has the slot, selected on an odd count, and the offline
\* head, which is due, is still at the front of its queue.
C29_Witness ==
    /\ current # None /\ current[2] /\ counter = 0
    /\ offline # <<>> /\ Head(offline)[1] = 0


\* ------------------------------------------------------------------ C30
\* The offline queue is ordered by retry time, the earliest first.
OfflineSorted ==
    \A i, j \in 1..Len(offline) : i < j => offline[i][1] <= offline[j][1]

\* C30: a yield empties the current slot and appends its address either to
\* the tail of the online queue (yield_online) or, with the retry time
\* BACKOFF from now, to the tail of the offline queue (yield_offline); the
\* offline queue is ordered by non-decreasing retry time in every reachable
\* state, so its entries leave it from the front in the order of their
\* retry times.
C30_YieldsKeepOrder ==
    /\ []OfflineSorted
    /\ [][/\ (current # None /\ current' = None) =>
                \/ /\ online' = Append(online, current[1])
                   /\ offline' = offline
                \/ /\ offline' = Append(offline, <<BACKOFF, current[1]>>)
                   /\ online' = online
          /\ Len(offline') < Len(offline) => offline' = Tail(offline)]_vars

\* A client that did not answer the probe was put behind the entry that is
\* due, with its retry time BACKOFF away.
C30_Witness ==
    /\ current = None /\ last.addr = 1
    /\ offline = <<<<0, 2>>, <<BACKOFF, 1>>>>


\* ------------------------------------------------------------------ C31
\* C31: a command other than ADR is written for the address a only while
\* the last ADR written to the bus was ADR a and was answered OK, whatever
\* requests, timeouts and replies came before.
C31_CmdOnAddressedBus ==
    (conn.op = "request" /\ conn.rc # <<"Skip">>) =>
        IF conn.ra # <<"Skip">> THEN conn.ra = <<"Ok", "OK">>
        ELSE conn.pbus = Some(<<conn.addr, TRUE>>)


\* ------------------------------------------------------------------ C32
\* C32: an output binding sends a write to the device only while the gate,
\* as the binding last saw it, is true: a binding that found the gate false
\* has no device write under way.
C32_WriteOnlyWhenOn == task.opc = "dwrite" => task.seen["pv"] = "on"


\* ------------------------------------------------------------------ C33
IsNormal(b) == b < 128

\* The whole input read in one piece, p being the pending high-bit address
\* and out the addresses emitted: a high-bit byte meets an empty slot and
\* waits there, or meets its equal and is emitted once, or meets another and
\* both go; a normal byte empties the slot.
RECURSIVE Pairing(_, _, _)
Pairing(s, p, out) ==
    IF s = <<>> THEN [prev |-> p, emit |-> out]
    ELSE LET b == Head(s)
         IN IF IsNormal(b) THEN Pairing(Tail(s), None, out)
            ELSE IF p = None THEN Pairing(Tail(s), Some(b - 128), out)
            ELSE IF p = Some(b - 128)
            THEN Pairing(Tail(s), None, Append(out, b - 128))
            ELSE Pairing(Tail(s), None, out)

\* C33: however the incoming bytes are split across reads, what the filter
\* passes on is the bytes below 0x80 in their order, and the high-bit bytes
\* go through one pending slot that outlives the reads: an equal pair emits
\* its address once, an unequal pair nothing, and a pending byte followed by
\* a normal byte is dropped while the normal byte passes.
C33_FilterOutput ==
    /\ outb = SelectSeq(inb, IsNormal)
    /\ emitted = Pairing(inb, None, <<>>).emit
    /\ prev = Pairing(inb, None, <<>>).prev

\* Four reads of one byte each: a pair of client 1, then a single byte of
\* client 2 with a normal byte after it.
C33_Witness ==
    /\ inb = <<129, 129, 130, 79>> /\ reads = 4
    /\ emitted = <<1>> /\ outb = <<79>> /\ prev = None


\* ------------------------------------------- Connection::request, the port
\* One Connection and the device behind the port.  rd.st tells where the
\* call of request stands: "idle" (no call), "delay" (in sleep(CMD_DELAY)),
\* "read" (suspended in read_until under the timeout).  The device answers
\* the transmission k with the line <<64 + k, LINE_TERM>>, at any later
\* time or never, and sends SRQ pairs of client 1; rd.wire is what it has
\* sent and the port has not received, rd.port what the port holds unread.
\* rd.pw: the port holds the task's waker, which it does after a read that
\* found nothing; rd.woken: the task is scheduled; rd.fired: the attempt's
\* CMD_TIMEOUT has passed.  rd.since is the bytes arrived since the
\* attempt's clear.
ReplyTo(k) == <<64 + k, LINE_TERM>>
SrqPair == <<129, 129>>

\* The first terminator of a byte sequence, 0 if there is none.
TermAt(b) ==
    IF \E i \in 1..Len(b) : b[i] = LINE_TERM
    THEN CHOOSE i \in 1..Len(b) :
             b[i] = LINE_TERM /\ \A j \in 1..(i - 1) : b[j] # LINE_TERM
    ELSE 0

\* BufReader::poll_fill_buf with its buffer empty: FilterReader::poll_read
\* on what the port holds.  The port with nothing to read keeps the waker
\* and is pending; FilterReader with nothing left after filtering returns
\* Pending itself, and no waker is kept by anyone.
fill_buf(r) ==
    IF r.port = <<>> THEN [r EXCEPT !.pw = TRUE]
    ELSE LET f == poll_read(Reader(r.fprev), r.port)
         IN [r EXCEPT !.port = <<>>, !.fprev = f.prev,
                      !.intr = @ \o f.sent, !.bufr = f.pass]

\* clear(&mut reader) finding the reader as it is, nothing drained.
clear_nothing(r) == r

\* Clear::poll: what the reader holds and what the port delivers is
\* consumed until poll_fill_buf is pending.
RECURSIVE clear(_)
clear(r) ==
    IF r.bufr # <<>> THEN clear([r EXCEPT !.bufr = <<>>])
    ELSE LET g == fill_buf(r)
         IN IF g.bufr = <<>> THEN g ELSE clear(g)

\* read_until(LINE_TERM, buf) polled: bytes are taken into buf up to the
\* terminator; rdy tells whether it was found.
RECURSIVE read_until(_)
read_until(r) ==
    IF r.bufr # <<>>
    THEN LET i == TermAt(r.bufr)
         IN IF i > 0
            THEN [r |-> [r EXCEPT !.line = @ \o SubSeq(r.bufr, 1, i),
                                  !.bufr = SubSeq(r.bufr, i + 1, Len(r.bufr))],
                  rdy |-> TRUE]
            ELSE read_until([r EXCEPT !.line = @ \o r.bufr, !.bufr = <<>>])
    ELSE LET g == fill_buf(r)
         IN IF g.bufr = <<>> THEN [r |-> g, rdy |-> FALSE]
            ELSE read_until(g)

\* One attempt from the end of sleep(CMD_DELAY) to its first suspension:
\* clear, the command written, read_until polled and, the port having just
\* been emptied, pending.
attempt(r) ==
    LET c == clear(r)
        w == [c EXCEPT !.tx = @ + 1, !.owed = @ \cup {c.tx + 1},
                       !.line = <<>>, !.since = <<>>, !.fired = FALSE]
        u == read_until(w)
    IN [u.r EXCEPT !.st = "read", !.woken = FALSE]

\* The future under the timeout polled again: read_until first, then the
\* timer.  Ok(resp) returns from the call; a timeout goes to the next
\* attempt or, after CMD_RETRIES attempts, returns Err(Timeout).
repoll(r) ==
    LET u == read_until([r EXCEPT !.woken = FALSE])
    IN IF u.rdy
       THEN [u.r EXCEPT !.st = "idle",
                        !.res = Some([resp |-> SubSeq(u.r.line, 1, Len(u.r.line) - 1),
                                      tx |-> r.tx, since |-> r.since,
                                      late |-> r.fired])]
       ELSE IF r.fired
       THEN IF r.att + 1 = CMD_RETRIES
            THEN [u.r EXCEPT !.st = "idle", !.res = None, !.line = <<>>]
            ELSE [u.r EXCEPT !.st = "delay", !.att = @ + 1, !.line = <<>>]
       ELSE u.r

SetR(n) ==
    /\ rd' = n
    /\ UNCHANGED <<muxVars, filterVars, task, iface, conn, reg, par, dev>>

\* Connection::request called.
ReadCall ==
    /\ rd.st = "idle" /\ rd.tx < MaxTx
    /\ SetR([rd EXCEPT !.st = "delay", !.call = @ + 1, !.att = 0,
                       !.res = None])

\* sleep(CMD_DELAY) is over.
ReadAttempt ==
    /\ rd.st = "delay" /\ rd.tx < MaxTx
    /\ SetR(attempt(rd))

\* The task is polled.
ReadPoll ==
    /\ rd.st = "read" /\ rd.woken
    /\ SetR(repoll(rd))

\* CMD_TIMEOUT passes.
ReadTimeout ==
    /\ rd.st = "read" /\ ~rd.fired
    /\ SetR([rd EXCEPT !.fired = TRUE, !.woken = TRUE])

\* The device answers the transmission k.
DevReply(k) ==
    /\ k \in rd.owed
    /\ SetR([rd EXCEPT !.owed = @ \ {k}, !.wire = @ \o ReplyTo(k)])

\* A device requests service.
DevSrq ==
    /\ rd.srq < MaxSrq
    /\ SetR([rd EXCEPT !.srq = @ + 1, !.wire = @ \o SrqPair])

\* A byte reaches the port; the port wakes the task whose waker it holds.
Arrive ==
    /\ rd.wire # <<>>
    /\ SetR([rd EXCEPT !.wire = Tail(@), !.port = Append(@, Head(rd.wire)),
                       !.since = Append(@, Head(rd.wire)),
                       !.woken = @ \/ rd.pw, !.pw = FALSE])

NextRead ==
    \/ ReadCall
    \/ ReadAttempt
    \/ ReadPoll
    \/ ReadTimeout
    \/ \E k \in 1..MaxTx : DevReply(k)
    \/ DevSrq
    \/ Arrive

SpecRead == Init /\ [][NextRead]_vars

\* ------------------------------------------------------------------ C34
\* C34: after a read that delivered SRQ bytes only the reader tries again,
\* so that the line arriving afterwards is handed to the read_until of the
\* same attempt when it arrives and not when the timeout ends: while an
\* attempt reads and a whole line waits at the port, the task is scheduled.
C34_RetriedOnArrival ==
    (rd.st = "read" /\ TermAt(rd.port) > 0) => rd.woken


\* ------------------------------------------------------------------ C39
\* C39 as stated: the response a call of request returns is the device's
\* reply to the transmission of the attempt that returns it, never the
\* reply to an earlier attempt or command that arrived late.
C39_OwnReply ==
    (rd.st = "idle" /\ rd.res # None) =>
        rd.res[1].resp = <<64 + rd.res[1].tx>>

\* C39 amended: the response a call of request returns is made of bytes
\* that reached the port after the clear of the attempt that returns it;
\* what had arrived before, a whole reply or a part of one, is not in it.
C39_OnlyFreshBytes ==
    (rd.st = "idle" /\ rd.res # None) =>
        LET n == SelectSeq(rd.res[1].since, IsNormal)
        IN /\ TermAt(n) > 0
           /\ rd.res[1].resp = SubSeq(n, 1, TermAt(n) - 1)

\* The reply to the first transmission came too late for its attempt and
\* was cleared by the second, which returned its own reply.
C39_Witness ==
    /\ rd.st = "idle" /\ rd.res # None
    /\ rd.res[1].tx = 2 /\ rd.res[1].resp = <<66>>
    /\ 1 \notin rd.owed /\ rd.wire = <<>>

\* ------------------------------------------------------------------ C35
\* The handler that returns in this step has sent sig to the client of a.
Sent(sig, a) ==
    pc # "top" /\ pc' = "top" /\ last'.sent = <<sig>> /\ last'.addr = a

\* C35: for each address the On and Off signals the multiplexer sends
\* alternate, starting with On: On is sent only from an offline-marked turn
\* of a client whose last signal was not On, Off only from an online-marked
\* turn of a client whose last signal was On, and nothing else changes what
\* the client was told last. The supervisor's gate is the last signal it
\* took from its channel, so it never gets On with the gate true nor Off
\* with the gate false.
C35_SignalsAlternate ==
    [][\A a \in Addrs :
         /\ Sent("On", a) =>
               ~sigOn[a] /\ sigOn'[a] /\ current = <<a, FALSE>>
         /\ Sent("Off", a) =>
               sigOn[a] /\ ~sigOn'[a] /\ current = <<a, TRUE>>
         /\ sigOn'[a] # sigOn[a] => Sent("On", a) \/ Sent("Off", a)]_vars

\* Client 1 has just been sent Off, after its On; client 2 is on.
C35_Witness ==
    /\ last.sent = <<"Off">> /\ last.addr = 1
    /\ ~sigOn[1] /\ sigOn[2]

\* ------------------------------------------------------------------ C36
\* C36: a queued command of address a is on its way to the bus (its ADR or
\* the command itself written, the reply awaited) only while the last of On
\* and Off sent to a's client is On and a holds an online-marked turn; an
\* address whose client was told Off, or nothing yet, is neither in the
\* online queue nor in an online-marked turn.
C36_QueuedOnlyWhenOn ==
    /\ (pc \in {"adr", "cmd"} /\ req.pri = "que") =>
          sigOn[req.addr] /\ current = <<req.addr, TRUE>>
    /\ \A a \in Addrs :
          ~sigOn[a] =>
              /\ current # <<a, TRUE>>
              /\ \A i \in 1..Len(online) : online[i] # a

\* A queued command of client 1 is on the bus while client 2, not On, has
\* queued commands waiting that were not written.
C36_Witness ==
    /\ pc = "cmd" /\ req.pri = "que" /\ req.addr = 1 /\ sigOn[1]
    /\ ~sigOn[2] /\ que[2] # <<>>

\* ------------------------------------------------------------------ C37
\* A step of the multiplexer that serves an immediate request: the select
\* taking it from the channel, or one of its replies coming back.
ServesImmediate ==
    \/ SelectPolled /\ imm # <<>> /\ imm' = Tail(imm)
    \/ pc \in {"adr", "cmd"} /\ req.pri = "imm" /\ line' # line

\* C37: serving an immediate request, from the select that takes it to its
\* return, successful or failed, leaves the scheduler's current slot, online
\* queue, offline queue and fairness counter as they were and sends no
\* signal to any client: a client whose turn was interrupted is still the
\* current client.
C37_ImmediateFrame ==
    [][ServesImmediate =>
          /\ current' = current /\ online' = online
          /\ offline' = offline /\ counter' = counter
          /\ sigOn' = sigOn
          /\ pc' = "top" => last'.h = "imm" /\ last'.sent = <<>>]_vars

\* An immediate request of client 2 has just failed during the online turn
\* of client 1, which still holds the slot.
C37_Witness ==
    /\ pc = "top" /\ last.h = "imm" /\ last.addr = 2 /\ last.err # "ok"
    /\ current = <<1, TRUE>> /\ sigOn[1]

\* ------------------------------------------------------------------ C38
\* The online turn of a ends in this step.
TurnEnds(a) == current = <<a, TRUE>> /\ current' # current

\* C38: the turn of an online client ends only in a step of the multiplexer
\* that took a Yield marker from its channel, that found the channel empty
\* when the yield timeout had run out, or in which one of its queued
\* commands failed; a successful queued command leaves the address in the
\* current slot, and the queued request the multiplexer serves next while
\* the slot is held is that client's.
C38_TurnEnds ==
    [][\A a \in Addrs :
         /\ TurnEnds(a) =>
               /\ current' = None /\ pc' = "top" /\ last'.addr = a
               /\ \/ /\ last'.h = "yield" /\ last'.err = "ok"
                     /\ SelectPolled /\ que[a] # <<>>
                     /\ Head(que[a]) = <<"Yield", FALSE>>
                  \/ /\ last'.h = "yield" /\ last'.err = "timeout"
                     /\ pc = "wait" /\ ydl = 0 /\ que[a] = <<>>
                  \/ /\ last'.h = "que" /\ last'.err # "ok"
                     /\ pc \in {"adr", "cmd"} /\ req.pri = "que"
                     /\ req.addr = a
         /\ (pc = "cmd" /\ req.pri = "que" /\ req.addr = a
               /\ pc' = "top" /\ last'.err = "ok") =>
               current = <<a, TRUE>> /\ current' = current
         /\ (current = <<a, TRUE>> /\ SelectPolled
               /\ pc' \in {"adr", "cmd"} /\ req'.pri = "que") =>
               req'.addr = a /\ current' = current]_vars

\* A queued command of client 1 has just succeeded; client 1 still holds
\* the slot with its next request waiting, client 2 waits in the online
\* queue.
C38_Witness ==
    /\ pc = "top" /\ last.h = "que" /\ last.err = "ok" /\ last.addr = 1
    /\ current = <<1, TRUE>> /\ online = <<2>> /\ que[1] # <<>>

\* ------------------------------------- Device::run and its scan task
\* What follows models Device::run (device/mod.rs) for one client: the
\* supervisor loop with its DeviceState, the task it spawns on Signal::On,
\* the Notify it shares with that task, and the join handle it awaits on
\* Signal::Off.  The multiplexer is reduced to what it does to this client:
\* it clears the client's queued channel and probes while the client's last
\* signal is not On, sends On when the probe succeeds, takes the client's
\* queued commands while it is On and sends Off when one fails.  Queued
\* commands come from the scan task only, once it has been polled.

\* Notify::notify_waiters: the tasks waiting in notified() are woken; no
\* permit is kept for a notified() created later.
notify_waiters(d) ==
    IF d.scan = "running" THEN [d EXCEPT !.scan = "notified"] ELSE d

\* rt.spawn(async move { select! { done.notified(), scan_loop } params }):
\* the task is queued, its body not yet run.
spawn(d) ==
    [d EXCEPT !.state = "Running", !.scan = "spawned", !.params = "task",
              !.log = "none"]

\* One turn of the loop of Device::run on signal s.
Device_run(d, s) ==
    IF s = "On"
    THEN IF d.state = "Stopped" THEN spawn(d)
         ELSE [d EXCEPT !.log = "Already running"]
    ELSE IF s = "Off"
    THEN IF d.state = "Running"
         THEN [notify_waiters(d) EXCEPT !.sup = "join", !.log = "none"]
         ELSE [d EXCEPT !.log = "Already stopped"]
    ELSE [d EXCEPT !.log = "Interrupt caught"]

\* The spawned task polled: the first poll creates done.notified(), polls it
\* and starts scan_loop; a poll after the notification ends the select and
\* returns the parameters.
scan_poll(d) ==
    IF d.scan = "spawned"
    THEN [d EXCEPT !.scan = "running", !.log = "Running"]
    ELSE [d EXCEPT !.scan = "exited", !.log = "Stopped"]

\* The multiplexer sends s to the client.
sig_send(d, s) ==
    [d EXCEPT !.sig = Append(d.sig, s), !.nsig = d.nsig + 1]

SetD(n) ==
    /\ dev' = n
    /\ UNCHANGED <<muxVars, filterVars, task, iface, conn, reg, par, rd>>

\* sig.recv() returns the oldest signal.
SupRecv ==
    /\ dev.sup = "recv" /\ dev.sig # <<>>
    /\ SetD(Device_run([dev EXCEPT !.sig = Tail(dev.sig)], Head(dev.sig)))

\* jh.await completes: state = DeviceState::Stopped(params).
SupJoin ==
    /\ dev.sup = "join" /\ dev.scan = "exited"
    /\ SetD([dev EXCEPT !.sup = "recv", !.state = "Stopped",
                        !.scan = "none", !.params = "sup"])

\* The runtime polls the spawned task.
ScanPoll ==
    /\ dev.scan \in {"spawned", "notified"}
    /\ SetD(scan_poll(dev))

\* scan_loop: cmdr.execute(cmd, Priority::Queued) puts a command in the
\* client's queued channel.
ScanExecute ==
    /\ dev.scan = "running" /\ dev.cmds < MaxCmds
    /\ SetD([dev EXCEPT !.cmds = dev.cmds + 1])

\* get_queued with an offline-marked guard clears the channel; check_online
\* sends ADR.
DevProbe ==
    /\ ~dev.told /\ ~dev.probing
    /\ SetD([dev EXCEPT !.cmds = 0, !.probing = TRUE])

\* check_online: is_online returned Ok(true) and Signal::On is sent, or it
\* returned something else.
DevProbeDone ==
    /\ dev.probing
    /\ \E ok \in BOOLEAN :
          IF ok
          THEN /\ dev.nsig < MaxSignals
               /\ SetD([sig_send(dev, "On") EXCEPT !.probing = FALSE,
                                                   !.told = TRUE])
          ELSE SetD([dev EXCEPT !.probing = FALSE])

\* request_queued: a queued command of the client answered, or failed and
\* Signal::Off sent.
DevCommand ==
    /\ dev.told /\ dev.cmds > 0
    /\ \E ok \in BOOLEAN :
          IF ok
          THEN SetD([dev EXCEPT !.cmds = dev.cmds - 1])
          ELSE /\ dev.nsig < MaxSignals
               /\ SetD([sig_send(dev, "Off") EXCEPT !.cmds = dev.cmds - 1,
                                                    !.told = FALSE])

\* The interrupt task sends Signal::Intr.
DevIntr ==
    /\ dev.nsig < MaxSignals
    /\ SetD(sig_send(dev, "Intr"))

NextDev ==
    \/ SupRecv
    \/ SupJoin
    \/ ScanPoll
    \/ ScanExecute
    \/ DevProbe
    \/ DevProbeDone
    \/ DevCommand
    \/ DevIntr

SpecDev == Init /\ [][NextDev]_vars

\* ------------------------------------------------------------------ C40
\* C40: an Off taken in state Running leads to state Stopped whenever it is
\* taken: while the supervisor awaits the join handle, the scan task has
\* the done notification, observed or about to be, so that it terminates
\* and the join completes.
C40_OffStops ==
    dev.sup = "join" => dev.scan \in {"notified", "exited"}

====
